---------------------------- MODULE Spec2Model ----------------------------
(***************************************************************************)
(* A model of the paa backend (khizar-anjum/paa): the commitment store and *)
(* its endpoints (main.py), the commitment-reminder sweep (scheduler.py),  *)
(* the time service (services/time_service.py), the structured LLM         *)
(* processor (services/llm_processor.py), the action processor             *)
(* (services/action_processor.py) and the habit name normaliser            *)
(* (services/habit_matcher.py).                                            *)
(*                                                                         *)
(* One user is modelled: every query of the code is scoped by user_id and  *)
(* no operation crosses users.  Times are seconds; a date is a day number  *)
(* (seconds \div DayLen).                                                  *)
(***************************************************************************)
EXTENDS Integers, Sequences, FiniteSets, TLC

VARIABLES
    real_now,            \* the platform clock (datetime.now(), date.today())
    clock,               \* TimeService fields
    commitments,         \* table commitments: row id = index
    completions,         \* table commitment_completions, in insertion order
    proactive_messages,  \* table proactive_messages, in insertion order
    conversations,       \* table conversations, in insertion order
    daily_checkins,      \* table daily_checkins: the days with a check-in row
    last_sweep,          \* history: what the most recent reminder sweep did
    sends,               \* history: send calls per commitment since its last reset
    last_call,           \* history: the most recent request that logs a completion of
                         \* a recurring commitment or runs the pipeline, and its result
    llm_in,              \* the upstream outcome handed to process_message
    llm_out,             \* what process_message returned for it
    scheduled_prompts,   \* table scheduled_prompts, in insertion order
    prompt_sweep,        \* history: what the most recent prompt sweep did
    fts,                 \* the schedulers: FakeTimeScheduler, its loop task, the
                         \* caller of stop(), and whether APScheduler runs
    job_log,             \* history since the last start_scheduler: the fake seconds
                         \* from the start to the first and to the second start of
                         \* job 1, whether each job has started, and of the most
                         \* recent loop iteration its time, the stamps of the
                         \* jobs before it, the jobs in jobs_to_run, the jobs
                         \* started and the jobs that raised; of the most recent
                         \* operation on the clock made while the loop runs the
                         \* time it left, the jobs put in jobs_to_run since and
                         \* the time of the latest iteration since
    extracted,           \* the most recent call of extract_commitments: the time
                         \* of the call, the message and the list returned
    classified,          \* the most recent call of classify: the classifier, the
                         \* message, the vector similarities and what the call
                         \* returned
    structured,          \* the most recent call of _parse_structured_response:
                         \* the object and what the call returned
    streak_call,         \* the most recent call of _calculate_habit_streak: the
                         \* completed_at of the habit's log rows, the date of the
                         \* call and the streak returned
    requests             \* the completion requests in progress: where each is,
                         \* and the commitment row its session loaded

timeVars == << real_now, clock >>
dbVars == << commitments, completions, proactive_messages, conversations,
             daily_checkins >>
sweepVars == << last_sweep, sends >>
llmVars == << llm_in, llm_out >>
promptVars == << scheduled_prompts, prompt_sweep >>

\* the state of the components that the commitment and chat handlers never
\* touch
schedVars == << fts, job_log >>

\* the calls of the stateless services
pureVars == << extracted, classified, structured, streak_call >>
raceVars == << requests >>
extVars == << promptVars, schedVars, pureVars, raceVars >>
besidesPrompts == << schedVars, pureVars, raceVars >>
besidesScheduler == << promptVars, pureVars, raceVars >>

\* the state that those components never touch
coreVars == << timeVars, dbVars, sweepVars, last_call, llmVars >>

vars == << real_now, clock, commitments, completions, proactive_messages,
           conversations, daily_checkins, last_sweep, sends, last_call,
           llm_in, llm_out, scheduled_prompts, prompt_sweep, fts, job_log,
           extracted, classified, structured, streak_call, requests >>

(***************************************************************************)
(* Bounds of the model.                                                    *)
(***************************************************************************)
MaxCommitments == 2
MaxOneTime == 1
MaxMessages == 2
MaxCompletions == 2
MaxConversations == 2
MaxTicks == 4

(***************************************************************************)
(* Values.                                                                 *)
(***************************************************************************)
NoTime == 0 - 1
NoDay == 0 - 1
NoId == 0
DayLen == 24 * 3600
TickLen == 30 * 60
StartTime == 23 * 3600
MaxElapsed == MaxTicks * TickLen

Day(t) == t \div DayLen

(***************************************************************************)
(* services/time_service.py                                                *)
(***************************************************************************)
CalculateFakeTime(c, real) ==
    IF ~c.use_fake_time THEN real
    ELSE IF c.real_start_time = NoTime \/ c.fake_start_time = NoTime THEN real
    ELSE c.fake_start_time + (real - c.real_start_time) * c.time_multiplier

Now == CalculateFakeTime(clock, real_now)

\* date.today(): the platform date, whatever the time service says
Today == Day(real_now)

ClockInit ==
    [use_fake_time |-> FALSE, fake_start_time |-> NoTime,
     real_start_time |-> NoTime, time_multiplier |-> 600]

\* the fields after start_fake_time
StartedClock(fake_start, multiplier) ==
    [use_fake_time |-> TRUE,
     fake_start_time |-> IF fake_start = NoTime THEN real_now ELSE fake_start,
     real_start_time |-> real_now,
     time_multiplier |-> multiplier]

\* the fields after stop_fake_time
StoppedClock ==
    [clock EXCEPT !.use_fake_time = FALSE,
                  !.fake_start_time = NoTime,
                  !.real_start_time = NoTime]

\* the fields after jump_to_time, which is refused on real time
JumpedClock(target_fake_time) ==
    IF ~clock.use_fake_time THEN clock
    ELSE [clock EXCEPT !.real_start_time = real_now,
                       !.fake_start_time = target_fake_time]

\* the fields after set_multiplier, which is refused on real time
MultipliedClock(new_multiplier) ==
    IF ~clock.use_fake_time THEN clock
    ELSE [clock EXCEPT !.real_start_time = real_now,
                       !.fake_start_time = CalculateFakeTime(clock, real_now),
                       !.time_multiplier = new_multiplier]

StartFakeTime(fake_start, multiplier) ==
    /\ clock' = StartedClock(fake_start, multiplier)
    /\ UNCHANGED << real_now, dbVars, sweepVars, last_call, llmVars, extVars >>

StopFakeTime ==
    /\ clock' = StoppedClock
    /\ UNCHANGED << real_now, dbVars, sweepVars, last_call, llmVars, extVars >>

\* the platform clock moves on by dt seconds
AdvanceTime(dt) ==
    /\ real_now + dt <= StartTime + MaxElapsed
    /\ real_now' = real_now + dt
    /\ UNCHANGED << clock, dbVars, sweepVars, last_call, llmVars, extVars >>

(***************************************************************************)
(* Rows.                                                                   *)
(***************************************************************************)
CommitmentRow(task, pattern, status, deadline) ==
    [task_description |-> task, recurrence_pattern |-> pattern, status |-> status,
     deadline |-> deadline, reminder_count |-> 0, last_reminded_at |-> NoTime,
     completion_count |-> 0]

\* a row of commitment_completions, with the fields the handlers set.  The
\* table class is not among the models of database.py; it is taken to have
\* no uniqueness constraint on (commitment_id, completion_date).
CompletionRow(cid, date, skipped) ==
    [commitment_id |-> cid, completion_date |-> date, skipped |-> skipped]

MessageRow(type, cid, scheduled_for, sent_at) ==
    [message_type |-> type, related_commitment_id |-> cid,
     scheduled_for |-> scheduled_for, sent_at |-> sent_at, user_responded |-> FALSE]

ConversationRow(session, response) ==
    [session_id |-> session, response |-> response]

Ids == 1..MaxCommitments

Exists(cs, id) == id \in 1..Len(cs)

\* a lookup that finds nothing
NoRowsFor(cmpl, cid, date) == {}

\* the lookup before the insert: rows of cmpl for (commitment, date)
RowsFor(cmpl, cid, date) ==
    {i \in 1..Len(cmpl) : cmpl[i].commitment_id = cid /\ cmpl[i].completion_date = date}

\* the ids of S, ascending
Ascending(S, n) ==
    LET In(i) == i \in S
    IN SelectSeq([i \in 1..n |-> i], In)

\* the record of a request: seq flips at every request
Called(op, cid, date, ok, response) ==
    [seq |-> 1 - last_call.seq, op |-> op, cid |-> cid, date |-> date, ok |-> ok,
     request |-> 0, committed |-> TRUE, outcomes |-> << >>, errors |-> << >>,
     response |-> response, stages |-> << >>, healthy |-> FALSE, status |-> 200]

(***************************************************************************)
(* main.py: the commitment endpoints.  Each looks the commitment up first  *)
(* and answers 404, changing nothing, when there is none: the actions are  *)
(* the requests that pass the lookup.                                      *)
(***************************************************************************)
\* POST /commitments
CreateCommitment(task, pattern, deadline) ==
    /\ Len(commitments) < MaxCommitments
    /\ commitments' = Append(commitments,
            CommitmentRow(task, pattern,
                          IF pattern # "none" THEN "active" ELSE "pending", deadline))
    /\ UNCHANGED << timeVars, completions, proactive_messages, conversations,
                    daily_checkins, sweepVars, last_call, llmVars, extVars >>

\* POST /commitments/{id}/complete; date = NoDay: no completion_date given
CompleteCommitment(id, date) ==
    /\ Exists(commitments, id)
    /\ IF commitments[id].recurrence_pattern = "none"
       THEN /\ commitments' = [commitments EXCEPT ![id].status = "completed"]
            /\ UNCHANGED << completions, last_call >>
       ELSE LET today == IF date # NoDay THEN date ELSE Today
            IN IF RowsFor(completions, id, today) # {}
               THEN /\ last_call' = Called("complete", id, today, TRUE, "already completed")
                    /\ UNCHANGED << commitments, completions >>
               ELSE /\ completions' = Append(completions, CompletionRow(id, today, FALSE))
                    /\ commitments' = [commitments EXCEPT
                          ![id].completion_count = commitments[id].completion_count + 1]
                    /\ last_call' = Called("complete", id, today, TRUE, "completed")
    /\ UNCHANGED << timeVars, proactive_messages, conversations, daily_checkins,
                    sweepVars, llmVars, extVars >>

\* POST /commitments/{id}/skip
SkipCommitment(id) ==
    /\ Exists(commitments, id)
    /\ IF commitments[id].recurrence_pattern = "none"
       THEN UNCHANGED << completions, last_call >>
       ELSE IF RowsFor(completions, id, Today) # {}
       THEN /\ last_call' = Called("skip", id, Today, TRUE, "already recorded")
            /\ UNCHANGED completions
       ELSE /\ completions' = Append(completions, CompletionRow(id, Today, TRUE))
            /\ last_call' = Called("skip", id, Today, TRUE, "skipped")
    /\ UNCHANGED << timeVars, commitments, proactive_messages, conversations,
                    daily_checkins, sweepVars, llmVars, extVars >>

\* POST /commitments/{id}/dismiss
DismissCommitment(id) ==
    /\ Exists(commitments, id)
    /\ commitments' = [commitments EXCEPT ![id].status = "dismissed"]
    /\ UNCHANGED << timeVars, completions, proactive_messages, conversations,
                    daily_checkins, sweepVars, last_call, llmVars, extVars >>

\* POST /commitments/{id}/postpone; deadline = NoDay: none given
PostponeCommitment(id, deadline) ==
    /\ Exists(commitments, id)
    /\ commitments' = [commitments EXCEPT
          ![id].deadline = IF deadline # NoDay THEN deadline ELSE @,
          ![id].status = "pending",
          ![id].reminder_count = 0]
    /\ sends' = [sends EXCEPT ![id] = 0]
    /\ UNCHANGED << timeVars, completions, proactive_messages, conversations,
                    daily_checkins, last_sweep, last_call, llmVars, extVars >>

\* PUT /commitments/{id}; status = "": none given, deadline = NoDay: none given
UpdateCommitment(id, status, deadline) ==
    /\ Exists(commitments, id)
    /\ commitments' = [commitments EXCEPT
          ![id].status = IF status # "" THEN status ELSE @,
          ![id].deadline = IF deadline # NoDay THEN deadline ELSE @]
    /\ UNCHANGED << timeVars, completions, proactive_messages, conversations,
                    daily_checkins, sweepVars, last_call, llmVars, extVars >>

(***************************************************************************)
(* main.py: POST /chat, the part that changes the store.                   *)
(***************************************************************************)
\* the unresponded commitment reminders, as the query of chat() filters them
Unresponded(msgs) ==
    {i \in 1..Len(msgs) : /\ ~msgs[i].user_responded
                           /\ msgs[i].message_type = "commitment_reminder"}

\* order_by(sent_at.desc()).limit(5): i can be among the five rows returned
\* iff fewer than five rows are strictly more recent (ties are in any order)
RecentProactive(msgs) ==
    {i \in Unresponded(msgs) :
        Cardinality({j \in Unresponded(msgs) : msgs[j].sent_at > msgs[i].sent_at}) < 5}

\* the rows the loop can stop at: the related commitment is pending
Answerable(msgs, cs) ==
    {i \in RecentProactive(msgs) :
        /\ msgs[i].related_commitment_id # NoId
        /\ Exists(cs, msgs[i].related_commitment_id)
        /\ cs[msgs[i].related_commitment_id].status = "pending"}

\* the first row of the loop with a pending commitment
FirstAnswerable(msgs, cs) ==
    {i \in Answerable(msgs, cs) :
        \A j \in Answerable(msgs, cs) : msgs[j].sent_at <= msgs[i].sent_at}

\* the commitment of a reminder after a reply of the given keyword class
Replied(c, kind, now) ==
    IF kind = "completion" THEN [c EXCEPT !.status = "completed"]
    ELSE IF kind = "dismissal" THEN [c EXCEPT !.status = "dismissed"]
    ELSE [c EXCEPT !.deadline = Day(now) + 1, !.reminder_count = 0]

\* kind: the first keyword list the message hits, "other" if none;
\* detected: the deadlines of the commitments the parser finds in the message.
\* The row saved holds the reply of the model, the demo reply or the fallback
\* text of the handler: a non-empty text in each case.
Chat(kind, detected) ==
    /\ Len(conversations) < MaxConversations
    /\ Len(commitments) + Len(detected) <= MaxCommitments
    /\ \E target \in IF kind = "other" \/ FirstAnswerable(proactive_messages, commitments) = {}
                      THEN {0}
                      ELSE FirstAnswerable(proactive_messages, commitments) :
         LET cid == IF target = 0 THEN NoId
                    ELSE proactive_messages[target].related_commitment_id
             answered == IF target = 0 THEN commitments
                         ELSE [commitments EXCEPT ![cid] = Replied(@, kind, Now)]
             created == [i \in 1..Len(detected) |->
                            CommitmentRow("task", "none", "pending", detected[i])]
         IN /\ commitments' = answered \o created
            /\ proactive_messages' =
                   IF target = 0 THEN proactive_messages
                   ELSE [proactive_messages EXCEPT ![target].user_responded = TRUE]
            /\ sends' = IF target # 0 /\ kind = "postpone"
                        THEN [sends EXCEPT ![cid] = 0] ELSE sends
            /\ conversations' = Append(conversations, ConversationRow(NoId, "reply"))
    /\ UNCHANGED << timeVars, completions, daily_checkins, last_sweep, last_call,
                    llmVars, extVars >>

(***************************************************************************)
(* scheduler.py: check_commitment_reminders.                               *)
(***************************************************************************)
MinInterval == 30 * 60
MaxReminders == 2

\* Commitment.deadline < now: the DATE column against a datetime parameter.
\* SQLite compares the stored 'YYYY-MM-DD' with 'YYYY-MM-DD HH:MM:SS.ffffff'
\* as text, so a deadline of the current day is already below now.
DeadlinePassed(c, now) == c.deadline # NoDay /\ c.deadline <= Day(now)

\* the filter of the query with the cap on reminder_count one higher
OverdueCapThree(c, now) ==
    /\ c.status = "pending"
    /\ DeadlinePassed(c, now)
    /\ c.reminder_count < MaxReminders + 1

\* the filter of the query
Overdue(c, now) ==
    /\ c.status = "pending"
    /\ DeadlinePassed(c, now)
    /\ c.reminder_count < MaxReminders

\* the interval test with >= for >
IntervalReached(c, now) ==
    c.last_reminded_at = NoTime \/ now - c.last_reminded_at >= MinInterval

\* the interval test of the loop
IntervalElapsed(c, now) ==
    c.last_reminded_at = NoTime \/ now - c.last_reminded_at > MinInterval

\* failed: the commitments whose send_proactive_message call fails (the
\* failure is swallowed there and no row is written)
CheckCommitmentReminders(failed) ==
    LET now == Now
        due == {i \in 1..Len(commitments) :
                   Overdue(commitments[i], now) /\ IntervalElapsed(commitments[i], now)}
        sent == Ascending(due \ failed, Len(commitments))
    IN /\ failed \subseteq due
       /\ Len(proactive_messages) + Len(sent) <= MaxMessages
       /\ proactive_messages' = proactive_messages \o
              [k \in 1..Len(sent) |->
                  MessageRow("commitment_reminder", sent[k], NoTime, now)]
       /\ commitments' = [i \in 1..Len(commitments) |->
              IF i \in due
              THEN [commitments[i] EXCEPT !.reminder_count = @ + 1,
                                          !.last_reminded_at = now]
              ELSE commitments[i]]
       /\ sends' = [i \in Ids |-> IF i \in due THEN sends[i] + 1 ELSE sends[i]]
       /\ last_sweep' = [at |-> now, due |-> due]
       /\ UNCHANGED << timeVars, completions, conversations, daily_checkins,
                       last_call, llmVars, extVars >>

(***************************************************************************)
(* The reminder lifecycle: the endpoints, the chat replies, the sweep and  *)
(* the clock.                                                              *)
(***************************************************************************)
Deadlines == {NoDay, 0, 1}
Statuses == {"pending", "completed", "dismissed"}
Starts == {DayLen}
Multipliers == {2}

NoCall ==
    [seq |-> 0, op |-> "none", cid |-> NoId, date |-> NoDay, ok |-> TRUE,
     request |-> 0, committed |-> TRUE, outcomes |-> << >>, errors |-> << >>,
     response |-> "", stages |-> << >>, healthy |-> FALSE, status |-> 200]

NoSweep == [at |-> NoTime, due |-> {}]

NoUpstream == [kind |-> "none"]
\* FakeTimeScheduler() and the APScheduler instance before start_scheduler
NoScheduler ==
    [running |-> FALSE, task |-> "none", cancel |-> FALSE, to_run |-> << >>,
     wake |-> NoTime, last_run |-> << >>, stop |-> "idle", aps |-> FALSE,
     started_fake |-> NoTime, late_start |-> FALSE]

\* no job has started
NoJobLog ==
    [first |-> NoTime, second |-> NoTime, count |-> << 0, 0, 0 >>,
     at |-> NoTime, before |-> << >>, due |-> {}, started |-> << >>,
     raised |-> {}, op |-> [at |-> NoTime, ran |-> {}, tick |-> NoTime]]

NoParse == [at |-> NoTime, message |-> << >>, result |-> << >>]

NoClassify ==
    [variant |-> "none", text |-> << >>, has_vector |-> FALSE,
     similarities |-> << >>, result |-> << >>]

NoStructured == [called |-> FALSE, data |-> << >>, result |-> << >>]

NoStreak == [called |-> FALSE, completions |-> << >>, today |-> NoDay, result |-> 0]

Requests == {1, 2}

NoRequest ==
    [pc |-> "idle", via |-> "", cid |-> NoId, date |-> NoDay,
     completion_count |-> 0]

NoPromptSweep == [at |-> NoTime, due |-> {}, fired |-> {}, sent |-> {}, repeated |-> FALSE]

Init ==
    /\ real_now = StartTime
    /\ clock = ClockInit
    /\ commitments = << >>
    /\ completions = << >>
    /\ proactive_messages = << >>
    /\ conversations = << >>
    /\ daily_checkins = {}
    /\ last_sweep = NoSweep
    /\ sends = [i \in Ids |-> 0]
    /\ last_call = NoCall
    /\ llm_in = NoUpstream
    /\ llm_out = NoUpstream
    /\ scheduled_prompts = << >>
    /\ prompt_sweep = NoPromptSweep
    /\ fts = NoScheduler
    /\ job_log = NoJobLog
    /\ extracted = NoParse
    /\ classified = NoClassify
    /\ structured = NoStructured
    /\ streak_call = NoStreak
    /\ requests = [r \in Requests |-> NoRequest]

Next ==
    \/ /\ Len(commitments) < MaxOneTime
       /\ \E d \in Deadlines : CreateCommitment("task", "none", d)
    \/ \E id \in Ids : CompleteCommitment(id, NoDay)
    \/ \E id \in Ids : DismissCommitment(id)
    \/ \E id \in Ids, d \in {NoDay, 1} : PostponeCommitment(id, d)
    \/ \E id \in Ids, st \in Statuses : UpdateCommitment(id, st, NoDay)
    \/ \E id \in Ids : UpdateCommitment(id, "", 1)
    \/ \E kind \in {"completion", "dismissal", "postpone", "other"},
          detected \in {<< >>, << 1 >>} :
          /\ Len(commitments) + Len(detected) <= MaxOneTime
          /\ Chat(kind, detected)
    \/ \E failed \in SUBSET Ids : CheckCommitmentReminders(failed)
    \/ \E fs \in Starts, m \in Multipliers : StartFakeTime(fs, m)
    \/ StopFakeTime
    \/ AdvanceTime(TickLen)

Spec == Init /\ [][Next]_vars

(***************************************************************************)
(* Names.  A string is a sequence of tokens: a token is a word or one      *)
(* blank.  The words of the model are chosen so that none is part of       *)
(* another, which makes containment of token sequences the containment of  *)
(* the character strings; none occurs in the verb or pattern tables of the *)
(* habit matcher and none is punctuated or hyphenated.                     *)
(***************************************************************************)
Blank == " "

\* str.lower() of a word
LowerWord(w) ==
    CASE w = "Jogging" -> "jogging"
      [] w = "Went" -> "went"
      [] w = "Yoga" -> "yoga"
      [] OTHER -> w

\* str.capitalize() of a word
CapitalizeWord(w) ==
    CASE LowerWord(w) = "jogging" -> "Jogging"
      [] LowerWord(w) = "went" -> "Went"
      [] LowerWord(w) = "yoga" -> "Yoga"
      [] OTHER -> w

Lower(str) == [i \in 1..Len(str) |-> LowerWord(str[i])]

\* str.strip()
Strip(str) ==
    LET solid == {i \in 1..Len(str) : str[i] # Blank}
    IN IF solid = {} THEN << >>
       ELSE SubSeq(str, CHOOSE i \in solid : \A j \in solid : i <= j,
                        CHOOSE i \in solid : \A j \in solid : i >= j)

\* str.split()
Split(str) ==
    LET IsWord(t) == t # Blank
    IN SelectSeq(str, IsWord)

\* ' '.join(words)
Join(words) ==
    [i \in 1..(IF words = << >> THEN 0 ELSE 2 * Len(words) - 1) |->
        IF i % 2 = 1 THEN words[(i + 1) \div 2] ELSE Blank]

\* sub in str
Contains(str, sub) ==
    \E k \in 0..(Len(str) - Len(sub)) :
        \A i \in 1..Len(sub) : str[k + i] = sub[i]

\* column.ilike('%' + sub + '%')
ILikeContains(str, sub) == Contains(Lower(str), Lower(sub))

\* column.ilike(other)
ILike(str, other) == Lower(str) = Lower(other)

\* str.lower() of a word of a chat message
LowerParserWord(w) ==
    CASE w = "I" -> "i"
      [] w = "I'll" -> "i'll"
      [] w = "I'm" -> "i'm"
      [] w = "Friday" -> "friday"
      [] w = "Call" -> "call"
      [] w = "Rest" -> "rest"
      [] w = "Finish" -> "finish"
      [] w = "Report" -> "report"
      [] w = "Go" -> "go"
      [] w = "Do" -> "do"
      [] w = "To" -> "to"
      [] OTHER -> w

\* w[0].upper() + w[1:]
UpperFirst(w) ==
    CASE w = "call" -> "Call"
      [] w = "rest" -> "Rest"
      [] w = "finish" -> "Finish"
      [] w = "report" -> "Report"
      [] w = "go" -> "Go"
      [] w = "do" -> "Do"
      [] w = "to" -> "To"
      [] OTHER -> w

(***************************************************************************)
(* services/habit_matcher.py                                               *)
(***************************************************************************)
stop_words ==
    {"i", "my", "the", "a", "an", "do", "did", "doing", "have", "had", "has",
     "take", "took", "taking", "go", "went", "going", "get", "got", "getting",
     "make", "made", "making", "some", "today", "yesterday"}

\* On the words of the model the verb table, the punctuation filter and
\* _apply_pattern_normalizations change nothing: what acts is the lowering,
\* the stripping and the stop words.
normalize_habit_name(habit_name) ==
    LET normalized == Strip(Lower(habit_name))
        words == Split(normalized)
        IsKept(w) == w \notin stop_words
        filtered_words == SelectSeq(words, IsKept)
    IN IF filtered_words = << >> THEN Strip(Lower(habit_name))
       ELSE Strip(Join(filtered_words))

suggest_habit_name(raw_input) ==
    LET suggested == Strip(normalize_habit_name(raw_input))
        words == Split(suggested)
    IN Join([i \in 1..Len(words) |-> CapitalizeWord(words[i])])

\* similarity_threshold of find_similar_habit, in hundredths
SimilarityThreshold == 70

\* SequenceMatcher(None, text1, text2).ratio() in hundredths, rounded down,
\* on the normalized names of the model ("yoga" and "jogging" share the
\* block "og": 2 * 2 / 11)
SequenceRatio(text1, text2) ==
    IF {text1, text2} = {<< "yoga" >>, << "jogging" >>} THEN 36
    ELSE IF text1 = text2 /\ text1 # << >> THEN 100
    ELSE 0

\* _calculate_similarity, in hundredths
CalculateSimilarity(text1, text2) ==
    LET words1 == {text1[i] : i \in 1..Len(text1)} \ {Blank}
        words2 == {text2[i] : i \in 1..Len(text2)} \ {Blank}
        word_similarity ==
            IF words1 # {} /\ words2 # {}
            THEN (100 * Cardinality(words1 \cap words2))
                     \div Cardinality(words1 \cup words2)
            ELSE 0
        seq_similarity == SequenceRatio(text1, text2)
    IN IF text1 = text2 THEN 100
       ELSE IF Contains(text2, text1) \/ Contains(text1, text2) THEN 90
       ELSE IF seq_similarity >= word_similarity THEN seq_similarity
       ELSE word_similarity

\* find_similar_habit: the test a name passes to be the match of habit_name
SimilarHabit(habit_name, existing_name) ==
    CalculateSimilarity(normalize_habit_name(habit_name),
                        normalize_habit_name(existing_name)) >= SimilarityThreshold

(***************************************************************************)
(* services/action_processor.py.  The session of process_response comes    *)
(* from SessionLocal (autoflush=False): a query sees the rows committed    *)
(* before and the rows flushed so far, never an object that was only       *)
(* added; an attribute changed on a loaded row is read back changed.       *)
(***************************************************************************)
\* the session at the start of process_response
OpenSession ==
    [commitments |-> commitments, pending_commitments |-> << >>,
     completions |-> completions, pending_completions |-> << >>,
     proactive_messages |-> proactive_messages,
     daily_checkins |-> daily_checkins, outcomes |-> << >>]

\* db.flush(): the added objects become rows, in the order they were added
Flush(S) ==
    [S EXCEPT !.commitments = S.commitments \o S.pending_commitments,
              !.pending_commitments = << >>,
              !.completions = S.completions \o S.pending_completions,
              !.pending_completions = << >>]

\* an outcome: what the claims read of the dictionary a handler returns;
\* habit_identifier is kept for the auto-created commitments only
Outcome(success, type, error, cid, date, auto) ==
    [success |-> success, type |-> type, error |-> error, commitment_id |-> cid,
     completion_date |-> date, was_auto_created |-> auto,
     habit_identifier |-> << >>]

Failed(type, error) == Outcome(FALSE, type, error, NoId, NoDay, FALSE)

Done(S, o) == [S EXCEPT !.outcomes = Append(S.outcomes, o)]

\* _create_proactive_message
CreateProactiveMessage(S, type, cid, scheduled_for) ==
    [S EXCEPT !.proactive_messages =
        Append(S.proactive_messages, MessageRow(type, cid, scheduled_for, NoTime))]

\* _create_commitment: one reminder row for initial_reminder, which the
\* schema requires, and one for each follow-up
CreateCommitmentAction(S, c) ==
    LET F == Flush(S)
        id == Len(F.commitments) + 1
        row == CommitmentRow(c.task_description, c.recurrence_pattern,
                   IF c.recurrence_pattern # "none" THEN "active" ELSE "pending",
                   c.deadline)
        A == [F EXCEPT !.commitments = Append(F.commitments, row)]
        R[k \in 0..(1 + c.follow_ups)] ==
            IF k = 0 THEN A
            ELSE CreateProactiveMessage(R[k - 1], "commitment_reminder", id,
                                        c.initial_reminder)
    IN IF c.raises
       THEN \* except Exception: the outcome of a failure; the row stays flushed
            Done(A, Failed("commitment_creation_failed", "error"))
       ELSE Done(R[1 + c.follow_ups],
                 Outcome(TRUE, "commitment_created", "", id, NoDay, FALSE))

\* the query of _log_commitment_completion and _update_commitment_schedule:
\* the active recurring commitments whose description contains the identifier
Matching(S, identifier) ==
    {i \in 1..Len(S.commitments) :
        /\ ILikeContains(S.commitments[i].task_description, identifier)
        /\ S.commitments[i].recurrence_pattern # "none"
        /\ S.commitments[i].status = "active"}

\* .first() of a query without order_by: the row of the lowest id
First(ids) == CHOOSE i \in ids : \A j \in ids : i <= j

\* the name given to an auto-created commitment
SuggestedName(habit_identifier) == Strip(habit_identifier)

\* _log_commitment_completion
LogCommitmentCompletion(S, a) ==
    LET found == Matching(S, a.habit_identifier)
        was_auto_created == found = {}
        F == IF was_auto_created
             THEN [Flush(S) EXCEPT !.commitments =
                      Append(Flush(S).commitments,
                             CommitmentRow(SuggestedName(a.habit_identifier),
                                           "daily", "active", NoDay))]
             ELSE S
        id == IF was_auto_created THEN Len(F.commitments) ELSE First(found)
        completion_date == IF a.completion_date # NoDay THEN a.completion_date
                           ELSE Today
        requested == IF was_auto_created THEN a.habit_identifier ELSE << >>
    IN IF a.raises
       THEN \* the except of _process_habit_action: the outcome of a failure;
            \* an auto-created row stays flushed
            Done(F, Failed("habit_action_failed", "error"))
       ELSE IF RowsFor(F.completions, id, completion_date) # {}
       THEN Done(F, [Outcome(TRUE, "commitment_already_completed", "", id,
                             completion_date, was_auto_created)
                        EXCEPT !.habit_identifier = requested])
       ELSE Done([F EXCEPT
                    !.pending_completions =
                        Append(@, CompletionRow(id, completion_date, FALSE)),
                    !.commitments[id].completion_count = @ + 1],
                 [Outcome(TRUE, "commitment_completed", "", id, completion_date,
                          was_auto_created)
                     EXCEPT !.habit_identifier = requested])

\* _create_new_recurring_commitment; the details carry no name, so the
\* commitment is named by the identifier
CreateNewRecurringCommitment(S, a) ==
    LET commitment_name == a.habit_identifier
        existing == {i \in 1..Len(S.commitments) :
                        /\ ILike(S.commitments[i].task_description, commitment_name)
                        /\ S.commitments[i].recurrence_pattern # "none"
                        /\ S.commitments[i].status = "active"}
        frequency == IF a.new_habit_details \in {"daily", "weekly", "monthly"}
                     THEN a.new_habit_details ELSE "daily"
    IN IF a.new_habit_details = "" THEN Done(S, Failed("", "no details"))
       ELSE IF existing # {} THEN Done(S, Failed("", "already exists"))
       ELSE Done([S EXCEPT !.pending_commitments =
                     Append(@, CommitmentRow(commitment_name, frequency, "active",
                                             NoDay))],
                 Outcome(TRUE, "recurring_commitment_created", "", NoId, NoDay, FALSE))

\* _update_commitment_schedule
UpdateCommitmentSchedule(S, a) ==
    LET found == Matching(S, a.habit_identifier)
        id == First(found)
    IN IF found = {} THEN Done(S, Failed("", "not found"))
       ELSE Done(IF a.details \in {"daily", "weekly", "monthly"}
                 THEN [S EXCEPT !.commitments[id].recurrence_pattern = a.details]
                 ELSE S,
                 Outcome(TRUE, "recurring_commitment_updated", "", NoId, NoDay, FALSE))

\* _process_habit_action
ProcessHabitAction(S, a) ==
    IF a.action_type = "log_completion" THEN LogCommitmentCompletion(S, a)
    ELSE IF a.action_type = "create_new" THEN CreateNewRecurringCommitment(S, a)
    ELSE IF a.action_type = "update_schedule" THEN UpdateCommitmentSchedule(S, a)
    ELSE Done(S, Failed("", "unknown habit action type"))

\* _process_mood: today's check-in is updated or created
ProcessMood(S) ==
    IF Day(Now) \in S.daily_checkins
    THEN Done(S, Outcome(TRUE, "mood_updated", "", NoId, NoDay, FALSE))
    ELSE Done([S EXCEPT !.daily_checkins = @ \cup {Day(Now)}],
              Outcome(TRUE, "mood_recorded", "", NoId, NoDay, FALSE))

\* _schedule_action
ScheduleAction(S, sa) ==
    Done(CreateProactiveMessage(S, "scheduled_prompt", NoId, sa.send_time),
         Outcome(TRUE, "action_scheduled", "", NoId, NoDay, FALSE))

\* the names of the model
Jogging == << "jogging" >>
WentJogging == << "went", Blank, "jogging" >>
JoggingPadded == << "Jogging", Blank >>
Yoga == << "yoga" >>

\* a StructuredAIResponse without people and profile updates; mood_analysis
\* is whether there is one
NoResponse ==
    [commitments |-> << >>, habit_actions |-> << >>, mood_analysis |-> FALSE,
     scheduled_actions |-> << >>]

HabitAction(type, identifier, date, new_details, details) ==
    [action_type |-> type, habit_identifier |-> identifier,
     completion_date |-> date, new_habit_details |-> new_details,
     details |-> details, raises |-> FALSE]

\* the action during whose handling a statement after the flush raises: the
\* creation of the reminder messages of a commitment, the lookup and the
\* recording of the completion of a log_completion
Raising(item) == [item EXCEPT !.raises = TRUE]

\* the database tasks of process_response in the order it builds them:
\* commitments, habit actions, mood
Tasks(response) ==
    [i \in 1..Len(response.commitments) |->
        [kind |-> "commitment", item |-> response.commitments[i]]]
    \o [i \in 1..Len(response.habit_actions) |->
        [kind |-> "habit_action", item |-> response.habit_actions[i]]]
    \o (IF response.mood_analysis THEN << [kind |-> "mood", item |-> << >>] >>
        ELSE << >>)

\* Every handler catches what it raises and returns an outcome, so the
\* except branches of the two loops are never entered.
RunTask(S, task) ==
    IF task.kind = "commitment" THEN CreateCommitmentAction(S, task.item)
    ELSE IF task.kind = "habit_action" THEN ProcessHabitAction(S, task.item)
    ELSE ProcessMood(S)

\* the two loops of process_response
RunAll(response) ==
    LET tasks == Tasks(response)
        T[i \in 0..Len(tasks)] ==
            IF i = 0 THEN OpenSession ELSE RunTask(T[i - 1], tasks[i])
        A[i \in 0..Len(response.scheduled_actions)] ==
            IF i = 0 THEN T[Len(tasks)]
            ELSE ScheduleAction(A[i - 1], response.scheduled_actions[i])
    IN A[Len(response.scheduled_actions)]

\* the number of actions of a response
ActionCount(response) ==
    Len(response.commitments) + Len(response.habit_actions)
    + (IF response.mood_analysis THEN 1 ELSE 0) + Len(response.scheduled_actions)

\* db.rollback() keeps what was flushed
RollbackKeepsFlushed(before, S) == [S EXCEPT !.pending_commitments = << >>,
                                             !.pending_completions = << >>]

\* db.rollback(): the store is what it was when the session was opened
Rollback(before, S) == before

\* the store and the result after process_response: db.commit() flushes and
\* commits, or fails and the except branch rolls back
ProcessResponseResult(response, commit_ok) ==
    LET S == RunAll(response)
    IN [store |-> IF commit_ok THEN Flush(S) ELSE Rollback(OpenSession, S),
        flushed |-> Flush(S),
        outcomes |-> S.outcomes,
        errors |-> IF commit_ok THEN << >> ELSE << "Transaction error" >>]

\* the model keeps the tables within their bounds
Fits(store) ==
    /\ Len(store.commitments) <= MaxCommitments
    /\ Len(store.completions) <= MaxCompletions
    /\ Len(store.proactive_messages) <= MaxMessages

ProcessResponse(response, commit_ok) ==
    \E result \in {ProcessResponseResult(response, commit_ok)} :
       /\ Fits(result.flushed)
       /\ commitments' = result.store.commitments
       /\ completions' = result.store.completions
       /\ proactive_messages' = result.store.proactive_messages
       /\ daily_checkins' = result.store.daily_checkins
       /\ last_call' = [seq |-> 1 - last_call.seq, op |-> "process_response",
                        cid |-> NoId, date |-> NoDay, ok |-> TRUE,
                        request |-> ActionCount(response),
                        committed |-> commit_ok,
                        outcomes |-> result.outcomes,
                        errors |-> result.errors, response |-> "",
                        stages |-> << >>, healthy |-> FALSE, status |-> 200]
       /\ UNCHANGED << timeVars, conversations, sweepVars, llmVars, extVars >>

(***************************************************************************)
(* The action processor and the completion endpoints.                      *)
(***************************************************************************)
MaxActions == 2


HabitActions ==
    {HabitAction("log_completion", id, NoDay, "", "") :
        id \in {Jogging, WentJogging, JoggingPadded, Yoga}}
    \cup {HabitAction("create_new", Jogging, NoDay, "weekly", ""),
          HabitAction("modify_existing", Jogging, NoDay, "", "")}

ExtractedCommitments ==
    {[task_description |-> Jogging, recurrence_pattern |-> "none",
      deadline |-> 1, initial_reminder |-> StartTime, follow_ups |-> 0,
      raises |-> FALSE]}

SeqsUpTo(S, n) == UNION {[1..k -> S] : k \in 0..n}

Responses ==
    {r \in [commitments : SeqsUpTo(ExtractedCommitments, MaxActions),
            habit_actions : SeqsUpTo(HabitActions, MaxActions),
            mood_analysis : {FALSE},
            scheduled_actions : {<< >>}] :
        ActionCount(r) <= MaxActions}

NextActions ==
    \/ \E r \in Responses, commit_ok \in BOOLEAN : ProcessResponse(r, commit_ok)
    \/ \E id \in Ids, d \in {NoDay, 1} : CompleteCommitment(id, d)
    \/ \E id \in Ids : SkipCommitment(id)

SpecActions == Init /\ [][NextActions]_vars

(***************************************************************************)
(* services/llm_processor.py.  An upstream outcome says whether there is a *)
(* client, how the call ended and, for a call that returned text, what the *)
(* parsing steps find in the text:                                         *)
(*   direct    what json.loads makes of the stripped text                  *)
(*   fenced    what the fenced-block search and its json.loads make of it  *)
(*   payload   the object parsed, directly or from the fenced block        *)
(*   message_field  the group of the "message" : "..." search of the       *)
(*                  fallback ("none": no match)                            *)
(*   looks_json     the text starts with { and contains 'message'          *)
(*   stripped       the text after the cleaning                            *)
(***************************************************************************)
DefaultMessage == "I understand. Let me help you with that."

\* _parse_structured_response: a field or an item that the schema rejects
\* raises; an absent message is defaulted, any string is kept
ParseStructuredResponse(payload) ==
    IF ~payload.valid \/ payload.message = "null" THEN [raised |-> TRUE]
    ELSE [raised |-> FALSE,
          message |-> IF payload.message = "absent" THEN DefaultMessage
                      ELSE payload.message,
          response |-> payload.actions]

\* _create_fallback_response
CreateFallbackResponse(text) ==
    LET conversational_response ==
            IF text.message_field # "none" THEN text.message_field
            ELSE IF text.looks_json THEN DefaultMessage
            ELSE text.stripped
    IN [source |-> "fallback",
        message |-> IF conversational_response = "" THEN DefaultMessage
                    ELSE conversational_response,
        response |-> NoResponse]

\* _generate_demo_response
GenerateDemoResponse(intent) ==
    IF intent.primary_intent = "habit_tracking"
    THEN [source |-> "demo",
          message |-> "Great job on completing your habit! Keep up the good work!",
          response |-> [NoResponse EXCEPT !.habit_actions =
              << HabitAction("log_completion", intent.habit, Day(Now), "", "source") >>]]
    ELSE IF intent.primary_intent = "mood_reflection"
    THEN [source |-> "demo",
          message |-> "Thank you for sharing how you're feeling. I'm here to support you.",
          response |-> [NoResponse EXCEPT
              !.mood_analysis = TRUE,
              !.scheduled_actions = IF intent.emotion = "sad"
                                    THEN << [send_time |-> Now + 3 * 3600] >>
                                    ELSE << >>]]
    ELSE [source |-> "demo",
          message |-> "I'm here to help! Feel free to tell me about your habits, commitments, or how you're feeling.",
          response |-> NoResponse]

\* the JSON search that never looks for a fenced block
ExtractJsonDirectOnly(text) ==
    IF text.direct # "invalid" THEN text.direct ELSE "invalid"

\* json.loads of the text and, when that fails, of the fenced block:
\* "object", "other" (a value that is no object) or "invalid"
ExtractJson(text) ==
    IF text.direct # "invalid" THEN text.direct
    ELSE IF text.fenced = "object" THEN "object"
    ELSE "invalid"

\* process_message
ProcessMessage(intent, upstream) ==
    IF ~upstream.client THEN GenerateDemoResponse(intent)
    ELSE IF upstream.call # "ok" THEN GenerateDemoResponse(intent)
    ELSE IF ExtractJson(upstream.text) # "object"
    THEN CreateFallbackResponse(upstream.text)
    ELSE LET parsed == ParseStructuredResponse(upstream.text.payload)
         IN IF parsed.raised THEN CreateFallbackResponse(upstream.text)
            ELSE [source |-> "structured", message |-> parsed.message,
                  response |-> parsed.response]

(***************************************************************************)
(* main.py: POST /chat/enhanced.                                           *)
(***************************************************************************)
FallbackReply ==
    "I'm here to help! Tell me about your day or ask me anything about your habits."

\* rag_system.retrieve_context(message.message, intent, current_user.id,
\* session_id=message.session_id): retrieve_context takes message, intent
\* and user_id only, so the call raises TypeError before the function runs
RetrieveContextRaises == TRUE

\* every collaborator of the request does its part: the classifier returns,
\* the generator answers with an object that passes the schema, the
\* commit of the actions succeeds
Healthy(classify_ok, upstream, commit_ok) ==
    /\ classify_ok
    /\ upstream.client
    /\ upstream.call = "ok"
    /\ ExtractJson(upstream.text) = "object"
    /\ ~ParseStructuredResponse(upstream.text.payload).raised
    /\ commit_ok

\* session_found: the chat session of the request exists and is the caller's;
\* classify_ok: the classifier returns (process_message and process_response
\* return whatever happens in them).  stages: the stages that ran to their
\* end, in order.
EnhancedChat(session, session_found, classify_ok, intent, upstream, commit_ok) ==
    IF ~session_found
    THEN \* HTTPException(404) is raised inside the try; the handler of
         \* Exception reads chat_session.name of None and raises again:
         \* the AttributeError leaves the endpoint, which answers 500
         /\ last_call' = [Called("enhanced_chat", NoId, NoDay, FALSE, "") EXCEPT
                             !.status = 500]
         /\ UNCHANGED << timeVars, dbVars, sweepVars, llmVars, extVars >>
    ELSE IF ~classify_ok \/ RetrieveContextRaises
    THEN /\ Len(conversations) < MaxConversations
         /\ conversations' = Append(conversations,
                                    ConversationRow(session, FallbackReply))
         /\ last_call' =
                [Called("enhanced_chat", NoId, NoDay, TRUE, FallbackReply) EXCEPT
                    !.stages = (IF classify_ok THEN << "classify" >> ELSE << >>)
                               \o << "fallback" >>,
                    !.healthy = Healthy(classify_ok, upstream, commit_ok)]
         /\ UNCHANGED << timeVars, commitments, completions, proactive_messages,
                         daily_checkins, sweepVars, llmVars, extVars >>
    ELSE \E ai_response \in {ProcessMessage(intent, upstream)} :
         \E result \in {ProcessResponseResult(ai_response.response, commit_ok)} :
            /\ Len(conversations) < MaxConversations
            /\ Fits(result.flushed)
            /\ llm_in' = upstream
            /\ llm_out' = ai_response
            /\ commitments' = result.store.commitments
            /\ completions' = result.store.completions
            /\ proactive_messages' = result.store.proactive_messages
            /\ daily_checkins' = result.store.daily_checkins
            /\ conversations' = Append(conversations,
                                       ConversationRow(session, ai_response.message))
            /\ last_call' = [seq |-> 1 - last_call.seq, op |-> "enhanced_chat",
                             cid |-> NoId, date |-> NoDay, ok |-> TRUE,
                             request |-> ActionCount(ai_response.response),
                             committed |-> commit_ok,
                             outcomes |-> result.outcomes,
                             errors |-> result.errors,
                             response |-> ai_response.message,
                             stages |-> << "classify", "retrieve", "llm",
                                           "actions", "persist" >>,
                             healthy |-> Healthy(classify_ok, upstream, commit_ok),
                             status |-> 200]
            /\ UNCHANGED << timeVars, sweepVars, extVars >>

\* llm_processor.process_message on its own
ProcessMessageCall(intent, upstream) ==
    /\ llm_in' = upstream
    /\ llm_out' = ProcessMessage(intent, upstream)
    /\ UNCHANGED << timeVars, dbVars, sweepVars, last_call, extVars >>

(***************************************************************************)
(* The enhanced chat over the upstream outcomes.                           *)
(***************************************************************************)
Payload(message, valid, actions) ==
    [message |-> message, valid |-> valid, actions |-> actions]

Text(direct, fenced, payload, message_field, looks_json, stripped) ==
    [direct |-> direct, fenced |-> fenced, payload |-> payload,
     message_field |-> message_field, looks_json |-> looks_json,
     stripped |-> stripped]

NoPayload == Payload("absent", FALSE, NoResponse)

PayloadActions ==
    {NoResponse,
     [NoResponse EXCEPT !.habit_actions =
         << HabitAction("log_completion", Jogging, NoDay, "", "") >>],
     [NoResponse EXCEPT !.habit_actions =
         << HabitAction("modify_existing", Jogging, NoDay, "", "") >>]}

Payloads ==
    {Payload(m, TRUE, a) : m \in {"absent", "", "Hello", "null"}, a \in PayloadActions}
    \cup {Payload("Hello", FALSE, NoResponse)}

\* what the fallback finds in the text of an object with this payload
FieldOf(payload) == IF payload.message \in {"", "Hello"} THEN payload.message ELSE "none"

Texts ==
    {Text("object", "none", p, FieldOf(p), p.message # "absent", "raw") : p \in Payloads}
    \cup {Text("invalid", "object", p, FieldOf(p), FALSE, "raw") : p \in Payloads}
    \cup {Text("other", "none", NoPayload, f, FALSE, "raw") : f \in {"none", "", "Hello"}}
    \cup {Text("invalid", fenced, NoPayload, f, lj, "raw") :
             fenced \in {"none", "invalid"}, f \in {"none", "", "Hello"},
             lj \in BOOLEAN}
    \cup {Text("invalid", "none", NoPayload, "none", FALSE, "")}

NoText == Text("invalid", "none", NoPayload, "none", FALSE, "")

\* call: "ok", "error" (the API call raises) or "no_text" (the reply has no
\* text block to read)
Upstreams ==
    {[kind |-> "upstream", client |-> TRUE, call |-> "ok", text |-> t] : t \in Texts}
    \cup {[kind |-> "upstream", client |-> c, call |-> call, text |-> NoText] :
             c \in BOOLEAN, call \in {"error", "no_text"}}

Intents ==
    {[primary_intent |-> "general_chat", habit |-> << >>, emotion |-> ""],
     [primary_intent |-> "habit_tracking", habit |-> Jogging, emotion |-> ""],
     [primary_intent |-> "mood_reflection", habit |-> << >>, emotion |-> "sad"]}

GeneralChat == [primary_intent |-> "general_chat", habit |-> << >>, emotion |-> ""]

NoClient == [kind |-> "upstream", client |-> FALSE, call |-> "error", text |-> NoText]

\* the inputs that a branch of the handler does not read are fixed
NextChat ==
    \/ \E classify_ok \in BOOLEAN, intent \in Intents, upstream \in Upstreams,
          commit_ok \in BOOLEAN :
          EnhancedChat(1, TRUE, classify_ok, intent, upstream, commit_ok)
    \/ EnhancedChat(1, FALSE, TRUE, GeneralChat, NoClient, TRUE)
    \/ \E intent \in Intents, upstream \in Upstreams :
          ProcessMessageCall(intent, upstream)

SpecChat == Init /\ [][NextChat]_vars

(***************************************************************************)
(* Properties of the reminder lifecycle (specification Spec).              *)
(***************************************************************************)
Stored == 1..Len(commitments)

\* the step is a sweep that sends for c: nothing else raises sends[c]
SendsFor(c) == sends'[c] = sends[c] + 1

\* new rows of proactive_messages about c in the step
NewRowsFor(c) ==
    {k \in (Len(proactive_messages) + 1)..Len(proactive_messages') :
        proactive_messages'[k].related_commitment_id = c}

C4_Bounded ==
    \A c \in Stored : sends[c] <= 2 /\ commitments[c].reminder_count <= 2

C4_Send ==
    \A c \in Stored :
        SendsFor(c) =>
            /\ commitments[c].status = "pending"
            /\ DeadlinePassed(commitments[c], Now)
            /\ commitments[c].reminder_count < 2
            /\ commitments'[c].reminder_count = commitments[c].reminder_count + 1
            /\ Cardinality(NewRowsFor(c)) <= 1

\* C4: without a postpone in between, no more than two reminders are sent
\* for a commitment and reminder_count never exceeds 2; the sweep sends only
\* for a commitment that is pending, past its deadline and below two
\* reminders, and a send raises reminder_count by exactly one.
C4_Theorem == [](C4_Bounded) /\ [][C4_Send]_vars

\* a sweep ran at the current time over a pending commitment past its
\* deadline, reminded twice more than the interval ago, and sent nothing
C4_Witness ==
    \E c \in Stored :
        /\ sends[c] = 2
        /\ commitments[c].reminder_count = 2
        /\ commitments[c].status = "pending"
        /\ DeadlinePassed(commitments[c], Now)
        /\ IntervalElapsed(commitments[c], Now)
        /\ last_sweep.at = Now
        /\ c \notin last_sweep.due

\* c was reminded no longer than the minimum interval before the current time
WithinInterval(c) ==
    /\ commitments[c].last_reminded_at # NoTime
    /\ Now - commitments[c].last_reminded_at <= MinInterval

C5_Sweep ==
    last_sweep' # last_sweep =>
        \A c \in Stored :
            /\ WithinInterval(c) =>
                  /\ c \notin last_sweep'.due
                  /\ commitments'[c] = commitments[c]
                  /\ sends'[c] = sends[c]
                  /\ NewRowsFor(c) = {}
            /\ c \in last_sweep'.due =>
                  /\ commitments'[c].reminder_count = commitments[c].reminder_count + 1
                  /\ commitments'[c].last_reminded_at = Now
                  /\ sends'[c] = sends[c] + 1
                  /\ Cardinality(NewRowsFor(c)) <= 1

\* C5: a sweep that runs within the minimum interval of a reminder of a
\* commitment sends nothing for it and leaves its reminder_count and
\* last_reminded_at as they are; the sweep that reminds sends one reminder
\* and raises reminder_count by one.
C5_Theorem == [][C5_Sweep]_vars

\* the last sweep ran after a first reminder of a commitment that is pending
\* and past its deadline, no later than the interval allows, and sent nothing
C5_Witness ==
    \E c \in Stored :
        /\ commitments[c].status = "pending"
        /\ commitments[c].reminder_count = 1
        /\ commitments[c].last_reminded_at # NoTime
        /\ DeadlinePassed(commitments[c], last_sweep.at)
        /\ last_sweep.at > commitments[c].last_reminded_at
        /\ last_sweep.at - commitments[c].last_reminded_at <= MinInterval
        /\ c \notin last_sweep.due
        /\ Cardinality({k \in 1..Len(proactive_messages) :
                           proactive_messages[k].related_commitment_id = c}) = 1

C6_Terminal ==
    \A c \in Stored :
        commitments[c].status \in {"completed", "dismissed"} =>
            /\ commitments'[c].status # "pending"
            /\ ~SendsFor(c)

\* C6: a completed or dismissed commitment is never moved back to pending
\* and never reminded.
C6_Terminal_Always == [][C6_Terminal]_vars

(***************************************************************************)
(* Properties of the action processor (specification SpecActions).         *)
(***************************************************************************)
\* the rows of commitment_completions for (c, d)
CompletionRows(c, d) ==
    {i \in 1..Len(completions) :
        completions[i].commitment_id = c /\ completions[i].completion_date = d}

Dates == {0, 1}

Processed == last_call.op = "process_response"

FailedOutcomes == {i \in 1..Len(last_call.outcomes) : ~last_call.outcomes[i].success}

\* C1: after process_response ran a batch in which exactly one action
\* failed, the error of that action is in the errors of the result.
C1_ErrorRecorded ==
    (Processed /\ Cardinality(FailedOutcomes) = 1) =>
        \A i \in FailedOutcomes :
            \E k \in 1..Len(last_call.errors) :
                last_call.errors[k] = last_call.outcomes[i].error

\* the step is a request to complete c for d: the endpoint, or a
\* process_response whose only action logs that completion
CompletesStep(c, d) ==
    /\ last_call'.seq # last_call.seq
    /\ \/ /\ last_call'.op = "complete"
          /\ last_call'.cid = c
          /\ last_call'.date = d
       \/ /\ last_call'.op = "process_response"
          /\ last_call'.request = 1
          /\ Len(last_call'.outcomes) = 1
          /\ last_call'.outcomes[1].type \in
                {"commitment_completed", "commitment_already_completed"}
          /\ last_call'.outcomes[1].commitment_id = c
          /\ last_call'.outcomes[1].completion_date = d

CompletionCount(cs, c) == IF Exists(cs, c) THEN cs[c].completion_count ELSE 0

Succeeded ==
    /\ last_call'.ok
    /\ last_call'.op = "process_response" => last_call'.outcomes[1].success

C2_Idempotent ==
    \A c \in Ids, d \in Dates :
        CompletesStep(c, d) =>
            /\ Succeeded
            /\ CompletionRows(c, d) # {} =>
                  /\ completions' = completions
                  /\ commitments' = commitments
            /\ (CompletionRows(c, d) = {} /\ last_call'.committed) =>
                  /\ Len(completions') = Len(completions) + 1
                  /\ completions'[Len(completions')].commitment_id = c
                  /\ completions'[Len(completions')].completion_date = d
                  /\ CompletionCount(commitments', c) =
                        CompletionCount(commitments, c) + 1

\* C2: a request to complete a recurring commitment for a date succeeds;
\* when the pair has a row already it adds none and leaves completion_count
\* as it is, and the first request adds exactly one row and adds one to
\* completion_count.
C2_Theorem == [][C2_Idempotent]_vars

\* a chat log_completion answered "already completed", with the one row and
\* the one count of the earlier request
C2_Witness ==
    /\ Processed
    /\ last_call.request = 1
    /\ Len(last_call.outcomes) = 1
    /\ last_call.outcomes[1].type = "commitment_already_completed"
    /\ last_call.outcomes[1].success
    /\ \E c \in Stored :
          /\ last_call.outcomes[1].commitment_id = c
          /\ Cardinality(CompletionRows(c, last_call.outcomes[1].completion_date)) = 1
          /\ ~completions[1].skipped
          /\ commitments[c].completion_count = 1

\* C3: there is at most one commitment_completions row per commitment and
\* date.
C3_OneRowPerDate ==
    \A c \in Ids, d \in Dates : Cardinality(CompletionRows(c, d)) <= 1

C9_RolledBack ==
    (last_call'.seq # last_call.seq /\ last_call'.op = "process_response"
     /\ ~last_call'.committed) =>
        /\ dbVars' = dbVars
        /\ last_call'.errors = << "Transaction error" >>
        /\ last_call'.ok

\* C9: when the commit of process_response fails the store is what it was
\* before the call, the errors of the result are the one 'Transaction error'
\* entry, and the call returns its result.
C9_Theorem == [][C9_RolledBack]_vars

\* a batch that created a commitment (flushed) and logged a completion, and
\* whose commit failed: none of it is in the store
C9_Witness ==
    /\ Processed
    /\ ~last_call.committed
    /\ \E i \in 1..Len(last_call.outcomes) :
          last_call.outcomes[i].type = "commitment_created"
    /\ \E i \in 1..Len(last_call.outcomes) :
          last_call.outcomes[i].type = "commitment_completed"
    /\ commitments = << >>
    /\ completions = << >>

\* C10: the commitment that a log_completion auto-creates is recurring
\* (daily, active) and is named by the normalized form of the identifier,
\* either as normalize_habit_name returns it or as suggest_habit_name
\* capitalizes it.
C10_NormalizedName ==
    (Processed /\ last_call.committed) =>
        \A i \in 1..Len(last_call.outcomes) :
            last_call.outcomes[i].was_auto_created =>
                LET c == commitments[last_call.outcomes[i].commitment_id]
                    identifier == last_call.outcomes[i].habit_identifier
                IN /\ c.recurrence_pattern = "daily"
                   /\ c.status = "active"
                   /\ c.task_description \in {normalize_habit_name(identifier),
                                              suggest_habit_name(identifier)}

(***************************************************************************)
(* Properties of the enhanced chat (specification SpecChat).               *)
(***************************************************************************)
Answered == last_call.op = "enhanced_chat"

\* C7: every enhanced-chat request is answered with a non-empty response
\* text and its turn is stored as a Conversation row.
C7_AlwaysAnswered ==
    Answered =>
        /\ last_call.ok
        /\ last_call.response # ""
        /\ conversations # << >>
        /\ conversations[Len(conversations)].response = last_call.response

Degraded(out) ==
    /\ out.source = "fallback"
    /\ out.response.commitments = << >>
    /\ out.response.habit_actions = << >>
    /\ out.response.scheduled_actions = << >>
    /\ ~out.response.mood_analysis

\* the payload passes the schema
Parses(payload) == payload.valid /\ payload.message # "null"

\* C8: process_message returns a response for every upstream outcome: the
\* demo response without a client or when the call fails; the parsed
\* response when the text is a JSON object, or else holds a fenced JSON
\* object, that passes the schema; in every other case the degraded response
\* with empty action lists and no mood_analysis.
C8_AlwaysResponds ==
    llm_in.kind = "upstream" =>
        /\ llm_out.source \in {"structured", "fallback", "demo"}
        /\ (~llm_in.client \/ llm_in.call # "ok") => llm_out.source = "demo"
        /\ (llm_in.client /\ llm_in.call = "ok") =>
              IF \/ llm_in.text.direct = "object" /\ Parses(llm_in.text.payload)
                 \/ /\ llm_in.text.direct = "invalid"
                    /\ llm_in.text.fenced = "object"
                    /\ Parses(llm_in.text.payload)
              THEN /\ llm_out.source = "structured"
                   /\ llm_out.response = llm_in.text.payload.actions
              ELSE Degraded(llm_out)

\* the text held a fenced JSON object with an action and was parsed
C8_Witness ==
    /\ llm_in.kind = "upstream"
    /\ llm_in.client
    /\ llm_in.call = "ok"
    /\ llm_in.text.direct = "invalid"
    /\ llm_in.text.fenced = "object"
    /\ llm_out.source = "structured"
    /\ llm_out.response.habit_actions # << >>

(***************************************************************************)
(* The commitments listing and the daily round trip (specification         *)
(* SpecDaily).                                                             *)
(***************************************************************************)
\* completed_today as get_commitments never reports it for a recurring row
NeverCompletedToday(cmpl, c, id, today) == FALSE

\* get_commitments: the computed field completed_today of one row
CompletedToday(cmpl, c, id, today) ==
    IF c.recurrence_pattern # "none" THEN RowsFor(cmpl, id, today) # {} ELSE FALSE

\* get_commitments without filters: every row with its computed fields
GetCommitments(cs, cmpl, today) ==
    [id \in 1..Len(cs) |->
        [status |-> cs[id].status,
         completion_count |-> cs[id].completion_count,
         is_recurring |-> cs[id].recurrence_pattern # "none",
         completed_today |-> CompletedToday(cmpl, cs[id], id, today)]]

NextDaily ==
    \/ CreateCommitment(Jogging, "daily", NoDay)
    \/ \E id \in Ids, d \in {NoDay, 0, 1} : CompleteCommitment(id, d)
    \/ \E id \in Ids : SkipCommitment(id)
    \/ AdvanceTime(TickLen)

SpecDaily == Init /\ [][NextDaily]_vars

\* the step is a completion request for today of a daily commitment that had
\* no row for today
CompletedForToday(id) ==
    /\ last_call'.seq # last_call.seq
    /\ last_call'.op = "complete"
    /\ last_call'.cid = id
    /\ last_call'.date = Today
    /\ commitments[id].recurrence_pattern = "daily"
    /\ RowsFor(completions, id, Today) = {}

C11_Step ==
    \A id \in Ids :
        CompletedForToday(id) =>
            LET before == GetCommitments(commitments, completions, Today)[id]
                after == GetCommitments(commitments', completions', Today')[id]
            IN /\ after.completed_today
               /\ after.completion_count = before.completion_count + 1
               /\ after.status = "active"
               /\ ~before.completed_today

\* C11: a daily commitment completed for today is listed afterwards with
\* completed_today true, completion_count one higher and status active.
C11_RoundTrip == [][C11_Step]_vars

\* a daily commitment listed as completed today, with one completion,
\* after the clock passed midnight
C11_Witness ==
    /\ Today = 1
    /\ last_call.op = "complete"
    /\ last_call.date = 1
    /\ Exists(commitments, last_call.cid)
    /\ commitments[last_call.cid].recurrence_pattern = "daily"
    /\ LET listed == GetCommitments(commitments, completions, Today)[last_call.cid]
       IN /\ listed.completed_today
          /\ listed.completion_count = 1
          /\ listed.status = "active"

(***************************************************************************)
(* scheduler.py: the scheduled prompts (specification SpecPrompts).        *)
(* schedule_days is the set of the weekday names that are substrings of    *)
(* the stored string, or Null; schedule_time is in minutes of the day.     *)
(***************************************************************************)
MaxPromptMessages == 2
MaxSweeps == 4

\* schedule_days NULL
Null == {"NULL"}

Weekdays == << "monday", "tuesday", "wednesday", "thursday", "friday",
               "saturday", "sunday" >>

\* now.strftime("%A").lower(); day 0 is a Monday
CurrentDay(now) == Weekdays[(Day(now) % 7) + 1]

\* current_time.hour * 60 + current_time.minute
MinuteOfDay(now) == (now % DayLen) \div 60

Abs(x) == IF x >= 0 THEN x ELSE 0 - x

PromptRow(type, time, days) ==
    [prompt_type |-> type, schedule_time |-> time, schedule_days |-> days,
     is_active |-> TRUE, last_sent_at |-> NoTime]

WorkDays == {"monday", "tuesday", "wednesday", "thursday", "friday"}

\* initialize_default_prompts_for_user
InitializeDefaultPrompts ==
    /\ scheduled_prompts = << >>
    /\ scheduled_prompts' = << PromptRow("work_checkin", 17 * 60, WorkDays),
                               PromptRow("weekend_reflection", 18 * 60, {"sunday"}) >>
    /\ UNCHANGED << coreVars, prompt_sweep, besidesPrompts >>

\* PUT /scheduled-prompts/{id}: the fields that were sent are stored as sent
UpdateScheduledPrompt(id, field, value) ==
    /\ id \in 1..Len(scheduled_prompts)
    /\ scheduled_prompts' =
          CASE field = "is_active" ->
                  [scheduled_prompts EXCEPT ![id].is_active = value]
            [] field = "schedule_days" ->
                  [scheduled_prompts EXCEPT ![id].schedule_days = value]
            [] field = "schedule_time" ->
                  [scheduled_prompts EXCEPT ![id].schedule_time = value]
    /\ UNCHANGED << coreVars, prompt_sweep, besidesPrompts >>

\* time_diff <= 5
WithinWindow(p, now) == Abs(MinuteOfDay(now) - p.schedule_time) <= 5

\* last_sent_at is None or last_sent_at.date() < now.date()
NotSentToday(p, now) ==
    p.last_sent_at = NoTime \/ Day(p.last_sent_at) < Day(now)

\* the loop of send_scheduled_prompts over the active prompts, in row
\* order: prompts with the stamps written so far, the prompts that fired,
\* and whether an exception ended the loop (a NULL schedule_days has no
\* lower())
PromptLoop(now) ==
    LET n == Len(scheduled_prompts)
        R[k \in 0..n] ==
            IF k = 0
            THEN [prompts |-> scheduled_prompts, fired |-> {}, raised |-> FALSE]
            ELSE LET prev == R[k - 1]
                     p == scheduled_prompts[k]
                 IN IF prev.raised \/ ~(p.is_active = TRUE) THEN prev
                    ELSE IF p.schedule_days = Null
                    THEN [prev EXCEPT !.raised = TRUE]
                    ELSE IF /\ CurrentDay(now) \in p.schedule_days
                            /\ WithinWindow(p, now)
                            /\ NotSentToday(p, now)
                    THEN [prev EXCEPT !.prompts[k].last_sent_at = now,
                                      !.fired = @ \cup {k}]
                    ELSE prev
    IN R[n]

\* the condition under which a prompt is to fire
PromptDue(p, now) ==
    /\ p.is_active = TRUE
    /\ p.schedule_days # Null
    /\ CurrentDay(now) \in p.schedule_days
    /\ Abs(MinuteOfDay(now) - p.schedule_time) <= 5
    /\ (p.last_sent_at = NoTime \/ Day(p.last_sent_at) # Day(now))

\* failed: the prompts whose send_proactive_message call fails (the failure
\* is swallowed there and no row is written)
SendScheduledPrompts(failed) ==
    LET now == Now
    IN \E result \in {PromptLoop(now)} :
       LET sent == Ascending(result.fired \ failed, Len(scheduled_prompts))
           pairs == {<< k, Day(now) >> : k \in result.fired}
       IN /\ failed \subseteq result.fired
          /\ Len(proactive_messages) + Len(sent) <= MaxPromptMessages
          /\ proactive_messages' = proactive_messages \o
                 [k \in 1..Len(sent) |-> MessageRow("scheduled_prompt", NoId, NoTime, now)]
          /\ scheduled_prompts' = result.prompts
          /\ prompt_sweep' =
                 [at |-> now,
                  due |-> {k \in 1..Len(scheduled_prompts) :
                              PromptDue(scheduled_prompts[k], now)},
                  fired |-> result.fired,
                  sent |-> prompt_sweep.sent \cup pairs,
                  repeated |-> prompt_sweep.repeated
                               \/ pairs \cap prompt_sweep.sent # {}]
          /\ UNCHANGED << timeVars, commitments, completions, conversations,
                          daily_checkins, sweepVars, last_call, llmVars, besidesPrompts >>

SweepLen == 5 * 60

\* Tuesday 23:00
PromptStarts == {DayLen + 23 * 3600}

\* the requests made of the update endpoint: the first prompt loses its
\* day list, the second is switched on and off and moved to Monday and
\* Tuesday 23:10
NextPrompts ==
    \/ InitializeDefaultPrompts
    \/ \E active \in BOOLEAN : UpdateScheduledPrompt(2, "is_active", active)
    \/ UpdateScheduledPrompt(1, "schedule_days", Null)
    \/ UpdateScheduledPrompt(2, "schedule_days", {"monday", "tuesday"})
    \/ UpdateScheduledPrompt(2, "schedule_time", 23 * 60 + 10)
    \/ \E failed \in SUBSET (1..2) : SendScheduledPrompts(failed)
    \/ \E fs \in PromptStarts, m \in Multipliers : StartFakeTime(fs, m)
    \/ StopFakeTime
    \/ /\ real_now < StartTime + MaxSweeps * SweepLen
       /\ AdvanceTime(SweepLen)

SpecPrompts == Init /\ [][NextPrompts]_vars

\* C12: in a sweep the prompts that fire are exactly the active prompts
\* whose day list holds today's weekday, whose time is within 5 minutes of
\* the time of day and that have not fired today.
C12_FiresExactly == prompt_sweep.fired = prompt_sweep.due

\* no prompt has fired twice on one calendar day, and an inactive prompt has
\* not fired in the last sweep
PromptsAtMostDaily ==
    /\ ~prompt_sweep.repeated
    /\ \A k \in prompt_sweep.fired : k \in prompt_sweep.due

(***************************************************************************)
(* services/fake_time_scheduler.py and start_scheduler / stop_scheduler    *)
(* (specification SpecScheduler).  The event loop runs one coroutine at a  *)
(* time: a step of the loop task goes from one suspension point to the     *)
(* next.  A job is any coroutine: it may finish without suspending or      *)
(* suspend once.  Jobs 1 and 2 are the jobs of the fake-time scheduler,    *)
(* job 3 stands for the jobs of APScheduler.                               *)
(***************************************************************************)
MaxSeconds == 8

\* interval_minutes of fake_commitment_reminders and fake_scheduled_prompts
JobIntervals == << 60, 5 >>

\* should_run of _scheduler_loop
ShouldRun(last_run_fake_time, interval_minutes, now) ==
    \/ last_run_fake_time = NoTime
    \/ now - last_run_fake_time >= interval_minutes * 60

\* the locked part of a loop iteration: jobs_to_run and the stamps
CheckJobs(f, now) ==
    LET due == {j \in 1..Len(f.last_run) :
                   ShouldRun(f.last_run[j], JobIntervals[j], now)}
    IN [f EXCEPT !.to_run = Ascending(due, Len(f.last_run)),
                 !.last_run = [j \in 1..Len(f.last_run) |->
                                  IF j \in due THEN now ELSE f.last_run[j]]]

\* the log after the jobs of started have started at this instant
Logged(log, started) ==
    LET Has(j) == \E k \in 1..Len(started) : started[k] = j
        since == Now - fts.started_fake
    IN [first |-> IF Has(1) /\ log.count[1] = 0 THEN since ELSE log.first,
        second |-> IF Has(1) /\ log.count[1] = 1 THEN since ELSE log.second,
        count |-> [j \in 1..3 |-> IF Has(j) /\ log.count[j] < 2
                                  THEN log.count[j] + 1 ELSE log.count[j]],
        at |-> log.at, before |-> log.before, due |-> log.due,
        started |-> log.started, raised |-> log.raised, op |-> log.op]

\* the elements of a list
Range(seq) == {seq[k] : k \in 1..Len(seq)}

\* the for loop with no try around the call: the first job that raises ends it
UntilRaise(to_run, raising) ==
    LET at == {k \in 1..Len(to_run) : to_run[k] \in raising}
    IN IF at = {} THEN to_run
       ELSE SubSeq(to_run, 1, CHOOSE k \in at : \A m \in at : k <= m)

\* "for job in jobs_to_run: try: await job.func() except Exception: log":
\* the jobs the loop gets to when the jobs of raising raise
JobsRun(to_run, raising) == to_run

\* the jobs that start before the next suspension point
Started(to_run, s, raising) ==
    IF s = 0 THEN JobsRun(to_run, raising)
    ELSE SubSeq(JobsRun(to_run, raising), 1, s)

\* "for job in jobs_to_run: await job.func()" up to the next suspension
\* point: the job numbered s in to_run suspends, or none does (s = 0) and
\* the task goes to sleep for one second
RunJobs(f, s, raising) ==
    LET run == JobsRun(f.to_run, raising)
        started == Started(f.to_run, s, raising)
    IN [f EXCEPT !.task = IF s = 0 THEN "sleeping" ELSE "job",
                 !.to_run = IF s = 0 THEN << >>
                            ELSE SubSeq(run, s + 1, Len(run)),
                 !.wake = IF s = 0 THEN real_now + 1 ELSE f.wake,
                 !.late_start = f.late_start
                                \/ (f.stop = "returned" /\ started # << >>)]

\* the task was cancelled and takes the CancelledError at its suspension point
Cancelled(f) == f.cancel

\* a job that raises does not suspend first
MayRun(to_run, s, raising) ==
    /\ s <= Len(JobsRun(to_run, raising))
    /\ raising \subseteq Range(Started(to_run, s, raising))
    /\ s > 0 => JobsRun(to_run, raising)[s] \notin raising

\* the loop task runs from its suspension point to the next one; the jobs
\* of raising raise an exception
LoopStep(s, raising) ==
    /\ fts.task \in {"pending", "job", "sleeping"}
    /\ (fts.task = "sleeping" /\ ~Cancelled(fts)) => real_now >= fts.wake
    /\ IF Cancelled(fts)
       THEN \* pending: the coroutine never runs; in a job: the error passes
            \* "except Exception" and reaches "except CancelledError: break"
            /\ s = 0
            /\ raising = {}
            /\ fts' = [fts EXCEPT !.task = "done", !.cancel = FALSE, !.to_run = << >>]
            /\ UNCHANGED job_log
       ELSE IF fts.task = "job"
       THEN /\ MayRun(fts.to_run, s, raising)
            /\ fts' = RunJobs(fts, s, raising)
            /\ job_log' =
                  [Logged(job_log, Started(fts.to_run, s, raising)) EXCEPT
                      !.started = @ \o Started(fts.to_run, s, raising),
                      !.raised = @ \cup raising]
       ELSE IF ~fts.running
       THEN /\ s = 0
            /\ raising = {}
            /\ fts' = [fts EXCEPT !.task = "done"]
            /\ UNCHANGED job_log
       ELSE \E checked \in {CheckJobs(fts, Now)} :
               /\ MayRun(checked.to_run, s, raising)
               /\ fts' = RunJobs(checked, s, raising)
               /\ job_log' =
                     [Logged(job_log, Started(checked.to_run, s, raising)) EXCEPT
                         !.at = Now,
                         !.before = fts.last_run,
                         !.due = Range(checked.to_run),
                         !.started = Started(checked.to_run, s, raising),
                         !.raised = raising,
                         !.op = IF @.at = NoTime THEN @
                                ELSE [@ EXCEPT !.ran = @ \cup Range(checked.to_run),
                                               !.tick = Now]]
    /\ UNCHANGED << coreVars, besidesScheduler >>

\* a job of APScheduler runs; the job functions never suspend
RealJob ==
    /\ fts.aps
    /\ fts' = [fts EXCEPT !.late_start = @ \/ fts.stop = "returned"]
    /\ job_log' = Logged(job_log, << 3 >>)
    /\ UNCHANGED << coreVars, besidesScheduler >>

\* start_scheduler: add_job replaces the jobs, then FakeTimeScheduler.start
StartScheduler ==
    /\ fts.stop # "awaiting"
    /\ fts' = IF fts.running
              THEN [fts EXCEPT !.aps = TRUE, !.last_run = << NoTime, NoTime >>,
                               !.stop = "idle"]
              ELSE [fts EXCEPT !.aps = TRUE, !.last_run = << NoTime, NoTime >>,
                               !.stop = "idle", !.running = TRUE,
                               !.task = "pending", !.cancel = FALSE,
                               !.to_run = << >>, !.late_start = FALSE,
                               !.started_fake = Now]
    /\ job_log' = IF fts.running THEN job_log ELSE NoJobLog
    /\ UNCHANGED << coreVars, besidesScheduler >>

\* stop_scheduler up to "await self._scheduler_task"
StopScheduler ==
    /\ fts.stop # "awaiting"
    /\ fts' = IF fts.task \in {"none", "done"}
              THEN [fts EXCEPT !.aps = FALSE, !.running = FALSE, !.stop = "returned"]
              ELSE [fts EXCEPT !.aps = FALSE, !.running = FALSE, !.cancel = TRUE,
                               !.stop = "awaiting"]
    /\ UNCHANGED << coreVars, besidesScheduler, job_log >>

\* stop() returns without awaiting the task
StopReturnsAtOnce ==
    /\ fts.stop = "awaiting"
    /\ fts' = [fts EXCEPT !.stop = "returned"]
    /\ UNCHANGED << coreVars, besidesScheduler, job_log >>

\* the awaited task is done: stop() and stop_scheduler return
StopReturns ==
    /\ fts.stop = "awaiting"
    /\ fts.task = "done"
    /\ fts' = [fts EXCEPT !.stop = "returned"]
    /\ UNCHANGED << coreVars, besidesScheduler, job_log >>

\* 600: one real second is ten fake minutes
DefaultMultiplier == 600

NextScheduler ==
    \/ StartScheduler
    \/ StopScheduler
    \/ StopReturns
    \/ \E s \in 0..2 : LoopStep(s, {})
    \/ RealJob
    \/ /\ fts.task \in {"none", "done"}
       /\ StartFakeTime(DayLen, DefaultMultiplier)
    \/ /\ fts.task \in {"none", "done"}
       /\ StopFakeTime
    \/ /\ real_now < StartTime + MaxSeconds
       /\ fts.task \in {"job", "sleeping"}
       /\ AdvanceTime(1)

SpecScheduler == Init /\ [][NextScheduler]_vars

\* C13: once stop() and stop_scheduler have returned, the loop task has
\* finished, no job is executing, and no job has started since.
C13_Stopped ==
    fts.stop = "returned" =>
        /\ fts.task \in {"none", "done"}
        /\ fts.to_run = << >>
        /\ ~fts.running
        /\ ~fts.aps
        /\ ~fts.late_start

\* stop() was called while a job was suspended in the middle of its
\* execution, and has returned
C13_Witness ==
    /\ fts.stop = "returned"
    /\ fts.task = "done"
    /\ job_log.count[1] > 0
    /\ job_log.count[2] = 0

\* the scheduler was started under the accelerated clock and job 1, the job
\* with interval_minutes = 60, has started
HourlyJobStarted ==
    /\ fts.running
    /\ clock.use_fake_time
    /\ clock.time_multiplier = DefaultMultiplier
    /\ job_log.count[1] > 0

\* C14: at 600x a job with interval_minutes = 60 first fires once 60 fake
\* minutes have elapsed since the fake time of the start, at most 2
\* one-second ticks late, and not earlier.
C14_FiresAfterInterval ==
    HourlyJobStarted =>
        /\ job_log.first >= 60 * 60
        /\ job_log.first <= 60 * 60 + 2 * DefaultMultiplier

(***************************************************************************)
(* services/commitment_parser.py                                           *)
(*                                                                         *)
(* A message is a sequence of words; the blanks between them are left out, *)
(* as every pattern joins its words with \s+ and the captured groups are   *)
(* stripped.  The words of the model are chosen so that none ends with the *)
(* first word of a pattern and none begins with a time phrase: a match of  *)
(* a pattern then starts and ends at the boundaries of words.              *)
(***************************************************************************)
MaxParseTicks == 2

\* re.IGNORECASE, str.lower()
LowerText(words) == [i \in 1..Len(words) |-> LowerParserWord(words[i])]

\* the words before the captured task, or after it ("X needs to be done")
commitment_patterns ==
    << [task_first |-> FALSE, words |-> << {"i'll"} >>],
       [task_first |-> FALSE, words |-> << {"i"}, {"need"}, {"to"} >>],
       [task_first |-> FALSE, words |-> << {"i"}, {"should"} >>],
       [task_first |-> FALSE, words |-> << {"i'm"}, {"going"}, {"to"} >>],
       [task_first |-> TRUE,
        words |-> << {"need", "needs"}, {"to"}, {"be"}, {"done"} >>],
       [task_first |-> FALSE, words |-> << {"i"}, {"have"}, {"to"} >>],
       [task_first |-> FALSE, words |-> << {"i"}, {"really"}, {"need"}, {"to"} >>],
       [task_first |-> FALSE, words |-> << {"i"}, {"must"} >> ] >>

\* the words of the pattern stand at position i of the lowered message
WordsAt(low, words, i) ==
    /\ i >= 1
    /\ i + Len(words) - 1 <= Len(low)
    /\ \A k \in 1..Len(words) : low[i + k - 1] \in words[k]

\* (today|tomorrow|this\s+\w+|by\s+\w+|this\s+weekend) at position j: the
\* number of words it takes, 0 when it does not match
PhraseLen(low, j) ==
    IF j < 1 \/ j > Len(low) THEN 0
    ELSE IF low[j] \in {"today", "tomorrow"} THEN 1
    ELSE IF low[j] \in {"this", "by"} /\ j + 1 <= Len(low) THEN 2
    ELSE 0

\* pattern.search from word position from: the leftmost match, its task
\* group as short as possible; none when there is no match
NoMatch == [found |-> FALSE, task |-> << >>, phrase |-> << >>, end |-> 0]

Search(pattern, message, from) ==
    LET low == LowerText(message)
        n == Len(pattern.words)
        \* pairs (start of the match, start of the time phrase)
        pairs ==
            IF pattern.task_first
            THEN {<< i, j >> \in (from..Len(low)) \X (from..Len(low)) :
                     /\ i = from
                     /\ j - n >= i + 1
                     /\ WordsAt(low, pattern.words, j - n)
                     /\ PhraseLen(low, j) > 0}
            ELSE {<< i, j >> \in (from..Len(low)) \X (from..Len(low)) :
                     /\ WordsAt(low, pattern.words, i)
                     /\ j >= i + n + 1
                     /\ PhraseLen(low, j) > 0}
    IN IF pairs = {} THEN NoMatch
       ELSE LET best == CHOOSE p \in pairs :
                            \A q \in pairs :
                                p[1] < q[1] \/ (p[1] = q[1] /\ p[2] <= q[2])
                i == best[1]
                j == best[2]
            IN [found |-> TRUE,
                task |-> IF pattern.task_first
                         THEN SubSeq(message, i, j - n - 1)
                         ELSE SubSeq(message, i + n, j - 1),
                phrase |-> SubSeq(message, j, j + PhraseLen(low, j) - 1),
                end |-> j + PhraseLen(low, j)]

\* pattern.finditer: the matches from left to right, none overlapping
RECURSIVE FindIter(_, _, _)
FindIter(pattern, message, from) ==
    LET m == Search(pattern, message, from)
    IN IF from > Len(message) \/ ~m.found THEN << >>
       ELSE << m >> \o FindIter(pattern, message, m.end)

\* words of fewer than three characters
ShortWords == {"i", "it", "go", "to", "do", "be", "by"}

\* len(task_description) < 3
TooShort(task) ==
    \/ task = << >>
    \/ Len(task) = 1 /\ LowerParserWord(task[1]) \in ShortWords

GenericTasks ==
    { << "it" >>, << "this" >>, << "that" >>, << "do", "it" >>,
      << "do", "this" >>, << "do", "that" >>, << "something" >>,
      << "do", "something" >> }

\* _clean_task_description
CleanTaskDescription(task) ==
    LET t1 == IF Len(task) > 1 /\ LowerParserWord(task[1]) \in {"to", "the"}
              THEN Tail(task) ELSE task
        t2 == IF Len(t1) > 1
                  /\ LowerParserWord(t1[Len(t1)]) \in {"though", "but", "however"}
              THEN SubSeq(t1, 1, Len(t1) - 1) ELSE t1
    IN IF t2 = << >> THEN t2
       ELSE << UpperFirst(t2[1]) >> \o Tail(t2)

\* now.weekday(): Monday is 0
Weekday(now) == Day(now) % 7

\* now.hour
Hour(now) == (now % DayLen) \div 3600

\* t.replace(hour=23, minute=59, second=59, microsecond=0)
EndOfDay(t) == Day(t) * DayLen + 23 * 3600 + 59 * 60 + 59

WeekdayNumber(name) == CHOOSE k \in 0..6 : Weekdays[k + 1] = name

WeekdayNames == {Weekdays[k] : k \in 1..7}

\* _get_next_weekday
GetNextWeekday(weekday_name, now) ==
    IF weekday_name \notin WeekdayNames THEN EndOfDay(now)
    ELSE LET days_ahead == WeekdayNumber(weekday_name) - Weekday(now)
             ahead == IF days_ahead = 0 /\ Hour(now) >= 18 THEN 7
                      ELSE IF days_ahead <= 0 THEN days_ahead + 7
                      ELSE days_ahead
         IN EndOfDay(now + ahead * DayLen)

\* _parse_deadline
ParseDeadline(time_phrase, now) ==
    LET p == LowerText(time_phrase)
        rest == SubSeq(p, 2, Len(p))
    IN IF p = << "today" >> THEN EndOfDay(now)
       ELSE IF p = << "tomorrow" >> THEN EndOfDay(now + DayLen)
       ELSE IF p = << "this", "weekend" >>
       THEN LET d == (6 - Weekday(now)) % 7
                days_until_sunday == IF d = 0 /\ Hour(now) >= 18 THEN 7 ELSE d
            IN EndOfDay(now + days_until_sunday * DayLen)
       ELSE IF Len(p) > 1 /\ p[1] = "this"
       THEN IF rest = << "week" >>
            THEN LET d == (6 - Weekday(now)) % 7
                     days_until_sunday == IF d = 0 THEN 7 ELSE d
                 IN EndOfDay(now + days_until_sunday * DayLen)
            ELSE IF Len(rest) = 1 /\ rest[1] \in WeekdayNames
            THEN GetNextWeekday(rest[1], now)
            ELSE EndOfDay(now)
       ELSE IF Len(p) > 1 /\ p[1] = "by"
       THEN IF Len(rest) = 1 /\ rest[1] \in WeekdayNames
            THEN GetNextWeekday(rest[1], now)
            ELSE IF rest = << "next", "week" >>
            THEN EndOfDay(now + (((6 - Weekday(now)) % 7) + 7) * DayLen)
            ELSE EndOfDay(now)
       ELSE EndOfDay(now)

\* the commitments of the matches of one pattern
RECURSIVE FromMatches(_, _)
FromMatches(matches, now) ==
    IF matches = << >> THEN << >>
    ELSE LET task_description == CleanTaskDescription(Head(matches).task)
         IN (IF TooShort(task_description)
                \/ LowerText(task_description) \in GenericTasks
             THEN << >>
             ELSE << [task_description |-> task_description,
                      deadline |-> ParseDeadline(Head(matches).phrase, now),
                      time_phrase |-> Head(matches).phrase] >>)
            \o FromMatches(Tail(matches), now)

RECURSIVE AllMatches(_, _, _)
AllMatches(k, message, now) ==
    IF k > Len(commitment_patterns) THEN << >>
    ELSE FromMatches(FindIter(commitment_patterns[k], message, 1), now)
         \o AllMatches(k + 1, message, now)

\* the first commitment of every task description, compared in lower case
RECURSIVE Unique(_, _)
Unique(cs, seen_tasks) ==
    IF cs = << >> THEN << >>
    ELSE LET task_lower == LowerText(Head(cs).task_description)
         IN IF task_lower \in seen_tasks THEN Unique(Tail(cs), seen_tasks)
            ELSE << Head(cs) >> \o Unique(Tail(cs), seen_tasks \cup {task_lower})

\* extract_commitments
ExtractCommitments(message) ==
    /\ extracted' = [at |-> Now, message |-> message,
                     result |-> Unique(AllMatches(1, message, Now), {})]
    /\ UNCHANGED << coreVars, promptVars, schedVars, raceVars, classified, structured,
                    streak_call >>

ParserMessages ==
    { << "I'll", "call", "mom", "today" >>,
      << "I", "need", "to", "finish", "the", "report", "by", "Friday" >>,
      << "I", "should", "go", "this", "weekend" >>,
      << "I", "should", "rest", "this", "weekend" >>,
      << "I'm", "going", "to", "do", "it", "tomorrow" >>,
      << "the", "report", "needs", "to", "be", "done", "this", "week" >>,
      << "I", "must", "rest", "this", "morning" >>,
      << "I", "have", "to", "call", "mom", "this", "sunday" >>,
      << "I", "really", "need", "to", "rest", "by", "next", "week" >>,
      << "I'll", "call", "mom", "today", "and", "I'll", "Call", "mom",
         "tomorrow" >>,
      << "I'll", "rest", "but", "tomorrow", "I", "must", "finish", "the",
         "report", "by", "monday" >>,
      << "call", "mom" >> }

\* Monday 23:59:58, Friday 17:59:59, Sunday 17:59:59 and Sunday 23:59:58
ParseStarts ==
    { DayLen - 2, 4 * DayLen + 18 * 3600 - 1, 6 * DayLen + 18 * 3600 - 1,
      7 * DayLen - 2 }

NextParser ==
    \/ \E message \in ParserMessages : ExtractCommitments(message)
    \/ \E fs \in ParseStarts : StartFakeTime(fs, 1)
    \/ StopFakeTime
    \/ /\ real_now < StartTime + MaxParseTicks
       /\ AdvanceTime(1)

SpecParser == Init /\ [][NextParser]_vars

\* C15: every commitment extracted has a task description that is not
\* empty and a deadline at 23:59:59 of a day, strictly after the time of
\* the call.
C15_DeadlineAfter ==
    \A i \in 1..Len(extracted.result) :
        /\ extracted.result[i].task_description # << >>
        /\ extracted.result[i].deadline % DayLen = DayLen - 1
        /\ extracted.result[i].deadline > extracted.at

\* the deadline is never before the second of the call
DeadlineNotBefore ==
    \A i \in 1..Len(extracted.result) :
        /\ extracted.result[i].task_description # << >>
        /\ extracted.result[i].deadline % DayLen = DayLen - 1
        /\ extracted.result[i].deadline >= extracted.at

(***************************************************************************)
(* services/nlp_intent_classifier.py and services/intent_classifier.py     *)
(*                                                                         *)
(* The text of a message is its sequence of words in lower case, a         *)
(* question mark being a word of its own.  The similarity of the vector    *)
(* of a message to the vector of each intent comes from the spaCy model,   *)
(* which is not part of the code: it is an input of the call, in           *)
(* hundredths, like every score and confidence here.  The entities, the    *)
(* secondary intents and the context list are built from literals of the   *)
(* schema and are left out of the result.                                  *)
(***************************************************************************)
PrimaryIntents ==
    {"habit_tracking", "commitment_making", "social_reference",
     "mood_reflection", "information_query", "general_chat"}

Urgencies == {"immediate", "normal", "low"}

\* the strings of the indicator lists that are part of a word
Inside(w) ==
    CASE w = "feeling" -> {"feeling", "feel"}
      [] w = "know" -> {"know", "now"}
      [] OTHER -> {w}

\* any(word in text for word in words)
Mentions(text, words) ==
    \E i \in 1..Len(text) : Inside(text[i]) \cap words # {}

\* a phrase of several words in text
HasSeq(text, words) == \E i \in 1..Len(text) : WordsAt(text, words, i)

\* MessageIntent(...): pydantic validates the fields; a value outside the
\* schema raises ValidationError
MessageIntent(primary_intent, urgency, confidence, score) ==
    IF /\ primary_intent \in PrimaryIntents
       /\ urgency \in Urgencies
       /\ confidence >= 0
       /\ confidence <= 100
    THEN [raised |-> FALSE, primary_intent |-> primary_intent,
          urgency |-> urgency, confidence |-> confidence, score |-> score]
    ELSE [raised |-> TRUE, primary_intent |-> "", urgency |-> "",
          confidence |-> 0, score |-> score]

NoScore == 0 - 1000

\* the first key of the largest value, in the order of the dictionary
FirstMax(order, scores) ==
    LET k == CHOOSE i \in 1..Len(order) :
                 /\ \A j \in 1..Len(order) : scores[order[j]] <= scores[order[i]]
                 /\ \A j \in 1..(i - 1) : scores[order[j]] < scores[order[i]]
    IN order[k]

\* the keys of intent_examples
intent_examples ==
    << "habit_tracking", "commitment_making", "mood_reflection",
       "social_reference", "information_query" >>

\* _get_pattern_scores, in tenths
GetPatternScores(text) ==
    [intent \in {intent_examples[i] : i \in 1..5} |->
        CASE intent = "habit_tracking" ->
                 (IF Mentions(text, {"usually", "always", "everyday", "daily",
                                     "regularly", "typically", "normally"})
                  THEN 10 ELSE 0)
                 + (IF /\ \/ Mentions(text, {"drink", "eat", "take", "exercise",
                                             "meditate", "practice"})
                          \/ HasSeq(text, << {"work"}, {"out"} >>)
                       /\ Mentions(text, {"everyday", "daily", "regularly",
                                          "usually", "always"})
                    THEN 15 ELSE 0)
          [] intent = "commitment_making" ->
                 IF \/ Mentions(text, {"i'll"})
                    \/ HasSeq(text, << {"i"}, {"will"} >>)
                    \/ HasSeq(text, << {"i"}, {"need"}, {"to"} >>)
                    \/ HasSeq(text, << {"i"}, {"should"} >>)
                    \/ HasSeq(text, << {"remind"}, {"me"} >>)
                 THEN 10 ELSE 0
          [] intent = "mood_reflection" ->
                 IF Mentions(text, {"feel", "feeling", "mood", "stressed",
                                    "happy", "sad", "anxious"})
                 THEN 10 ELSE 0
          [] intent = "information_query" ->
                 IF \/ Mentions(text, {"?"})
                    \/ /\ text # << >>
                       /\ text[1] \in {"how", "what", "when", "where", "why"}
                    \/ WordsAt(text, << {"did", "have"}, {"i"} >>, 1)
                 THEN 10 ELSE 0
          [] OTHER -> 0]

\* _classify_intent_semantic: the intent, the confidence and the top score
ClassifyIntentSemantic(text, has_vector, similarities) ==
    IF ~has_vector THEN << "general_chat", 50, NoScore >>
    ELSE LET pattern_scores == GetPatternScores(text)
             final_scores ==
                 [intent \in DOMAIN similarities |->
                     similarities[intent] + pattern_scores[intent] * 3]
             intent == FirstMax(intent_examples, final_scores)
             confidence == final_scores[intent]
         IN IF confidence < 40 THEN << "general_chat", 50, confidence >>
            ELSE << intent, IF confidence < 100 THEN confidence ELSE 100,
                    confidence >>

\* _assess_urgency
AssessUrgency(text, primary_intent) ==
    IF Mentions(text, {"urgent", "asap", "immediately", "emergency", "help",
                       "crisis"})
    THEN "high"
    ELSE IF \/ Mentions(text, {"today", "now"})
            \/ HasSeq(text, << {"this"}, {"morning"} >>)
    THEN "medium"
    ELSE IF /\ primary_intent = "mood_reflection"
            /\ Mentions(text, {"stressed", "anxious", "overwhelmed", "panic",
                               "crisis"})
    THEN "medium"
    ELSE "low"

\* NLPIntentClassifier.classify
NlpClassifyResult(text, has_vector, similarities) ==
    LET semantic == ClassifyIntentSemantic(text, has_vector, similarities)
    IN MessageIntent(semantic[1], AssessUrgency(text, semantic[1]),
                     semantic[2], semantic[3])

NlpClassify(text, has_vector, similarities) ==
    /\ text = << >> => ~has_vector
    /\ classified' = [variant |-> "embedding", text |-> text,
                      has_vector |-> has_vector, similarities |-> similarities,
                      result |-> NlpClassifyResult(text, has_vector, similarities)]
    /\ UNCHANGED << coreVars, promptVars, schedVars, raceVars, extracted, structured,
                    streak_call >>

\* \w+
ClassifierWords ==
    {"tell", "me", "a", "joke", "i", "worked", "out", "today", "i'll", "call",
     "mom", "tomorrow", "feel", "stressed", "about", "work", "i'm", "going",
     "to", "run", "later", "help", "asap", "did", "john", "said", "maybe",
     "sometime", "usually", "drink", "water", "everyday", "let", "know",
     "done"}

\* (today|tomorrow|later|this\s+\w+|by\s+\w+) at position j
TimePhraseAt(text, j) ==
    /\ j >= 1
    /\ j <= Len(text)
    /\ \/ text[j] \in {"today", "tomorrow", "later"}
       \/ /\ text[j] \in {"this", "by"}
          /\ j + 1 <= Len(text)
          /\ text[j + 1] \in ClassifierWords

\* the words, then (.+?), then a time phrase
ThenPhrase(text, words) ==
    \E i \in 1..Len(text), j \in 1..Len(text) :
        /\ WordsAt(text, words, i)
        /\ j >= i + Len(words) + 1
        /\ TimePhraseAt(text, j)

Count(flags) == Cardinality({i \in 1..Len(flags) : flags[i]})

MoodWords ==
    {"stressed", "anxious", "happy", "sad", "tired", "excited", "overwhelmed",
     "great", "good", "bad"}

\* which patterns of each list re.search finds in the message
habit_patterns(text) ==
    << \/ HasSeq(text, << {"worked"}, {"out"} >>)
       \/ Mentions(text, {"exercised", "meditated", "studied", "practiced",
                          "completed", "finished", "did"}),
       \/ HasSeq(text, << {"i"}, {"went", "did", "completed", "finished"} >>)
       \/ HasSeq(text, << {"i"}, {"just", "already"},
                          {"went", "did", "completed", "finished"} >>),
       HasSeq(text, << {"done", "completed"}, ClassifierWords >>) >>

classifier_commitment_patterns(text) ==
    << ThenPhrase(text, << {"i'll"} >>),
       ThenPhrase(text, << {"i"}, {"need", "have", "want", "should", "must"},
                           {"to"} >>),
       \/ HasSeq(text, << {"remind"}, {"me"}, {"to"}, ClassifierWords >>)
       \/ HasSeq(text, << {"don't"}, {"let"}, {"me"}, {"forget"}, {"to"},
                          ClassifierWords >>),
       HasSeq(text, << {"i"}, {"promise", "commit"}, {"to"}, ClassifierWords >>) >>

social_patterns(text) ==
    << \/ HasSeq(text, << ClassifierWords,
                          {"said", "mentioned", "recommended", "suggested"} >>)
       \/ HasSeq(text, << ClassifierWords, {"told"}, {"me"} >>),
       \/ HasSeq(text, << {"talked", "spoke", "met", "saw"}, ClassifierWords >>)
       \/ HasSeq(text, << {"hung"}, {"out"}, {"with"}, ClassifierWords >>),
       \/ HasSeq(text, << ClassifierWords, {"and"}, {"i"}, {"discussed"} >>)
       \/ HasSeq(text, << ClassifierWords, {"and"}, {"i"}, {"talked"},
                          {"about"} >>) >>

mood_patterns(text) ==
    << \/ HasSeq(text, << {"feeling", "feel", "i'm"}, MoodWords >>)
       \/ HasSeq(text, << {"i"}, {"am"}, MoodWords >>),
       HasSeq(text, << {"stressed", "anxious", "worried", "concerned"},
                       {"about"} >>),
       HasSeq(text, << {"excited", "happy", "thrilled"}, {"about", "for"} >>),
       \/ HasSeq(text, << {"my"}, {"mood"} >>)
       \/ Mentions(text, {"emotionally", "mentally"}) >>

\* the last pattern, (\\?|what|when|where|how|why)$, is an optional
\* backslash or one of the words, at the end: the empty string matches it
query_patterns(text) ==
    << \/ HasSeq(text, << {"how"}, {"many", "often"} >>)
       \/ HasSeq(text, << {"when"}, {"did"} >>)
       \/ HasSeq(text, << {"what"}, {"time"} >>)
       \/ HasSeq(text, << {"show"}, {"me"} >>)
       \/ HasSeq(text, << {"tell"}, {"me"}, {"about"} >>),
       HasSeq(text, << {"did", "have", "was", "were"}, {"i"} >>),
       Mentions(text, {"statistics", "stats", "progress", "summary",
                       "overview"}),
       TRUE >>

\* the keys of scores
score_order ==
    << "habit_tracking", "commitment_making", "social_reference",
       "mood_reflection", "information_query" >>

\* the patterns of an intent
PatternCount(text, intent) ==
    CASE intent = "habit_tracking" -> Count(habit_patterns(text))
      [] intent = "commitment_making" -> Count(classifier_commitment_patterns(text))
      [] intent = "social_reference" -> Count(social_patterns(text))
      [] intent = "mood_reflection" -> Count(mood_patterns(text))
      [] intent = "information_query" -> Count(query_patterns(text))
      [] OTHER -> 0

\* _determine_primary_intent: scores
IntentScores(text) ==
    [intent \in {score_order[i] : i \in 1..5} |->
        PatternCount(text, intent)
        + (IF intent = "information_query" /\ Mentions(text, {"?"}) THEN 2 ELSE 0)
        + (IF /\ intent = "commitment_making"
              /\ \/ Mentions(text, {"remind", "tomorrow", "i'll"})
                 \/ HasSeq(text, << {"i"}, {"will"} >>)
           THEN 1 ELSE 0)
        + (IF /\ intent = "mood_reflection"
              /\ Mentions(text, {"feel", "feeling", "mood", "stressed",
                                 "anxious", "happy"})
           THEN 1 ELSE 0)]

\* _determine_primary_intent
DeterminePrimaryIntent(text) ==
    LET scores == IntentScores(text)
    IN IF \A intent \in DOMAIN scores : scores[intent] = 0 THEN "general_chat"
       ELSE FirstMax(score_order, scores)

\* _determine_urgency
DetermineUrgency(text) ==
    LET high_urgency_words ==
            {"urgent", "asap", "immediately", "emergency", "critical",
             "important", "deadline", "today", "now", "stressed", "anxious"}
        high_count == Cardinality({w \in high_urgency_words : Mentions(text, {w})})
        low_count ==
            Cardinality({w \in {"maybe", "sometime", "eventually", "whenever"} :
                            Mentions(text, {w})})
            + Count(<< HasSeq(text, << {"no"}, {"rush"} >>),
                       HasSeq(text, << {"when"}, {"i"}, {"can"} >>),
                       HasSeq(text, << {"if"}, {"possible"} >>) >>)
    IN IF high_count > low_count THEN "immediate"
       ELSE IF low_count > 0 THEN "low"
       ELSE "normal"

\* _calculate_confidence
CalculateConfidence(text, primary_intent) ==
    IF primary_intent = "general_chat" THEN 50
    ELSE LET pattern_count == PatternCount(text, primary_intent)
         IN IF pattern_count >= 3 THEN 95
            ELSE IF pattern_count >= 2 THEN 85
            ELSE IF pattern_count >= 1 THEN 75
            ELSE 60

\* _extract_entities: match.group(-1) raises IndexError when one of the
\* action patterns matches; the two that begin with a capital I never
\* match the lowered message
ExtractEntitiesRaises(text) ==
    \/ HasSeq(text, << {"going"}, {"to"}, ClassifierWords >>)
    \/ HasSeq(text, << {"let"}, {"me"}, ClassifierWords >>)

\* IntentClassifier.classify
PatternClassifyResult(text) ==
    LET primary_intent == DeterminePrimaryIntent(text)
        max_score == IntentScores(text)[FirstMax(score_order, IntentScores(text))]
    IN IF ExtractEntitiesRaises(text)
       THEN [raised |-> TRUE, primary_intent |-> "", urgency |-> "",
             confidence |-> 0, score |-> max_score]
       ELSE MessageIntent(primary_intent, DetermineUrgency(text),
                          CalculateConfidence(text, primary_intent), max_score)

PatternClassify(text) ==
    /\ classified' = [variant |-> "pattern", text |-> text,
                      has_vector |-> FALSE, similarities |-> << >>,
                      result |-> PatternClassifyResult(text)]
    /\ UNCHANGED << coreVars, promptVars, schedVars, raceVars, extracted, structured,
                    streak_call >>

ClassifierMessages ==
    { << >>,
      << "tell", "me", "a", "joke" >>,
      << "i", "worked", "out", "today" >>,
      << "i'll", "call", "mom", "tomorrow" >>,
      << "i", "feel", "stressed", "about", "work" >>,
      << "i'm", "going", "to", "run", "later" >>,
      << "help", "me", "asap" >>,
      << "did", "i", "run", "?" >>,
      << "john", "said", "maybe", "sometime" >>,
      << "i", "usually", "drink", "water", "everyday" >>,
      << "let", "me", "know" >>,
      << "call", "mom" >> }

\* cosine similarities, in hundredths
Flat(v) == [intent \in {intent_examples[i] : i \in 1..5} |-> v]

NlpSimilarities ==
    { Flat(20), Flat(0 - 30), Flat(39),
      [Flat(30) EXCEPT !["habit_tracking"] = 85],
      [Flat(10) EXCEPT !["mood_reflection"] = 70],
      [Flat(30) EXCEPT !["commitment_making"] = 95] }

NextClassifier ==
    \/ \E text \in ClassifierMessages : PatternClassify(text)
    \/ \E text \in ClassifierMessages, has_vector \in BOOLEAN,
          similarities \in NlpSimilarities :
          NlpClassify(text, has_vector, similarities)

SpecClassifier == Init /\ [][NextClassifier]_vars

\* C16: every call of classify, in both variants, returns a MessageIntent
\* with one of the six intents, an urgency of immediate, normal or low and
\* a confidence in [0, 1], and never raises; when no intent scores
\* (pattern variant) or the top blended score is below 0.4 (embedding
\* variant), the result is general_chat with confidence 0.5.
C16_AlwaysClassifies ==
    classified.variant # "none" =>
        /\ ~classified.result.raised
        /\ classified.result.primary_intent \in PrimaryIntents
        /\ classified.result.urgency \in Urgencies
        /\ classified.result.confidence >= 0
        /\ classified.result.confidence <= 100
        /\ ((\/ classified.variant = "pattern" /\ classified.result.score = 0
             \/ /\ classified.variant = "embedding"
                /\ classified.result.score # NoScore
                /\ classified.result.score < 40)
            => /\ classified.result.primary_intent = "general_chat"
               /\ classified.result.confidence = 50)

\* whenever classify returns, the result is as the claim says
ValidWhenReturned ==
    (classified.variant # "none" /\ ~classified.result.raised) =>
        /\ classified.result.primary_intent \in PrimaryIntents
        /\ classified.result.urgency \in Urgencies
        /\ classified.result.confidence >= 0
        /\ classified.result.confidence <= 100
        /\ ((\/ classified.variant = "pattern" /\ classified.result.score = 0
             \/ /\ classified.variant = "embedding"
                /\ classified.result.score # NoScore
                /\ classified.result.score < 40)
            => /\ classified.result.primary_intent = "general_chat"
               /\ classified.result.confidence = 50)

\* the pattern variant never answers general_chat
PatternNeverGeneral ==
    (classified.variant = "pattern" /\ ~classified.result.raised) =>
        classified.result.primary_intent # "general_chat"

(***************************************************************************)
(* services/llm_processor.py: _parse_structured_response, field by field.  *)
(*                                                                         *)
(* The object the generator sent is a record of what each key holds:       *)
(*   a list key        "absent", "null", "string" (a value that is no      *)
(*                     list) or a sequence of items; an item is "non_dict",*)
(*                     "bad" (an object that the schema of the item        *)
(*                     rejects) or an object that the schema accepts       *)
(*   mood_analysis     "absent", "null", "string", or an object: "object"  *)
(*                     (a valid mood), "invalid_mood" (detected_mood is a  *)
(*                     string outside the five moods), "mood_not_str"      *)
(*                     (detected_mood is no string)                        *)
(*   message           "absent", "null" or the text                        *)
(*   response_metadata "absent", "null" or "object"                        *)
(***************************************************************************)
ListFields ==
    {"commitments", "habit_actions", "people_updates", "user_profile_updates",
     "scheduled_actions"}

\* what a list key holds
Value(kind, items) == [kind |-> kind, items |-> items]

Absent == Value("absent", << >>)

JsonNull == Value("null", << >>)

JsonString == Value("string", << >>)

List(items) == Value("list", items)

IsList(value) == value.kind = "list"

\* data = response_data.get(field, []) without the isinstance check
ListDataUnchecked(value) ==
    IF value = Absent THEN List(<< >>) ELSE value

\* data = response_data.get(field, []); if not isinstance(data, list): data = []
ListData(value) ==
    IF value = Absent THEN List(<< >>)
    ELSE IF ~IsList(value) THEN List(<< >>)
    ELSE value

\* the items of a list
Item(n) == [kind |-> "object", id |-> n]

NonDict == [kind |-> "non_dict", id |-> 0]

Bad == [kind |-> "bad", id |-> 0]

IsItem(x) == x.kind = "object"

\* the loop over the items of a list key: items that are no objects are
\* skipped; an item that the schema rejects raises, except a commitment,
\* whose constructor is inside a try.  A loop over None raises, one over a
\* string finds no object.
ParseList(field, value) ==
    LET data == ListData(value)
        IsBad(x) == x = Bad
    IN IF data = JsonNull THEN [raised |-> TRUE, items |-> << >>]
       ELSE IF ~IsList(data) THEN [raised |-> FALSE, items |-> << >>]
       ELSE [raised |-> field # "commitments" /\ SelectSeq(data.items, IsBad) # << >>,
             items |-> SelectSeq(data.items, IsItem)]

\* if response_data.get('mood_analysis'): mood_data.get('detected_mood',
\* 'neutral').lower(), a mood outside valid_moods becomes 'neutral',
\* MoodAnalysis(...)
ParseMood(value) ==
    IF value \in {"absent", "null"} THEN [raised |-> FALSE, mood |-> "None"]
    ELSE IF value \in {"string", "mood_not_str"}
    THEN [raised |-> TRUE, mood |-> "None"]
    ELSE [raised |-> FALSE, mood |-> "MoodAnalysis"]

NoLists == [f \in ListFields |-> << >>]

\* _parse_structured_response
ParseResponseData(response_data) ==
    LET lists == [f \in ListFields |-> ParseList(f, response_data[f])]
        mood == ParseMood(response_data.mood_analysis)
    IN IF \/ \E f \in ListFields : lists[f].raised
          \/ mood.raised
          \/ response_data.response_metadata = "null"
          \/ response_data.message = "null"
       THEN [raised |-> TRUE, message |-> "", lists |-> NoLists,
             mood_analysis |-> "None"]
       ELSE [raised |-> FALSE,
             message |-> IF response_data.message = "absent" THEN DefaultMessage
                         ELSE response_data.message,
             lists |-> [f \in ListFields |-> lists[f].items],
             mood_analysis |-> mood.mood]

ParseStructured(response_data) ==
    /\ structured' = [called |-> TRUE, data |-> response_data,
                      result |-> ParseResponseData(response_data)]
    /\ UNCHANGED << coreVars, promptVars, schedVars, raceVars, extracted, classified,
                    streak_call >>

\* the objects parsed: every list key is absent or holds no list in some
\* and holds a list in others
WellFormedMetadata ==
    [commitments : {Absent, JsonString, List(<< Item(1) >>),
                    List(<< Item(1), Bad >>)},
     habit_actions : {Absent, JsonNull, List(<< NonDict, Item(1), Item(2) >>),
                      List(<< Item(1), Bad >>)},
     people_updates : {Absent, JsonString, List(<< Item(1) >>)},
     user_profile_updates : {JsonNull, List(<< Item(1) >>)},
     scheduled_actions : {Absent, List(<< NonDict, Item(1), Item(2) >>)},
     mood_analysis : {"absent", "null", "object"},
     message : {"absent", "On it.", "null"},
     response_metadata : {"absent"}]

ResponseData ==
    WellFormedMetadata
    \cup {[commitments |-> Absent, habit_actions |-> Absent,
           people_updates |-> Absent, user_profile_updates |-> JsonNull,
           scheduled_actions |-> Absent, mood_analysis |-> m,
           message |-> "On it.", response_metadata |-> "null"] :
              m \in {"absent", "string"}}
    \cup [commitments : {List(<< Item(1) >>)},
          habit_actions : {List(<< Item(1) >>), List(<< Item(1), Bad >>)},
          people_updates : {Absent, List(<< Bad >>)},
          user_profile_updates : {JsonNull},
          scheduled_actions : {List(<< Item(1) >>)},
          mood_analysis : {"object", "invalid_mood", "mood_not_str"},
          message : {"On it."},
          response_metadata : {"absent", "null"}]

NextParse ==
    \E response_data \in ResponseData : ParseStructured(response_data)

SpecParse == Init /\ [][NextParse]_vars

\* every key of the object besides mood_analysis and the list keys that
\* are absent or hold no list is well-formed
RestWellFormed(data) ==
    /\ data.message # "null"
    /\ data.response_metadata # "null"
    /\ \A f \in ListFields :
           \A i \in 1..Len(data[f].items) : data[f].items[i] # Bad

\* C17: an object whose mood_analysis is absent or null and some of whose
\* list keys are absent or hold no list parses without raising, to a
\* response with mood_analysis None, those lists empty, and the well-formed
\* lists parsed.
C17_Defaults ==
    (/\ structured.called
     /\ structured.data.mood_analysis \in {"absent", "null"}
     /\ RestWellFormed(structured.data))
    => /\ ~structured.result.raised
       /\ structured.result.mood_analysis = "None"
       /\ \A f \in ListFields :
              structured.result.lists[f] =
                  SelectSeq(structured.data[f].items, IsItem)

C17_Witness ==
    /\ structured.called
    /\ structured.data.mood_analysis = "null"
    /\ structured.data.commitments = Absent
    /\ structured.data.habit_actions = JsonNull
    /\ structured.data.people_updates = JsonString
    /\ structured.data.user_profile_updates = JsonNull
    /\ structured.data.scheduled_actions = List(<< NonDict, Item(1), Item(2) >>)
    /\ RestWellFormed(structured.data)
    /\ ~structured.result.raised
    /\ structured.result.mood_analysis = "None"
    /\ structured.result.lists["scheduled_actions"] = << Item(1), Item(2) >>
    /\ structured.result.lists["habit_actions"] = << >>

(***************************************************************************)
(* The dates of the completions under fake time (specification             *)
(* SpecFakeDay): completion requests that give no date, from the endpoint  *)
(* and from the pipeline, while the time service runs on fake time.        *)
(***************************************************************************)
\* Thursday noon
FakeDayStarts == {3 * DayLen + 12 * 3600}

\* a response that logs a completion of the habit without a date
LogsJogging ==
    [NoResponse EXCEPT
        !.habit_actions = << HabitAction("log_completion", Jogging, NoDay, "", "") >>]

NextFakeDay ==
    \/ CreateCommitment(Jogging, "daily", NoDay)
    \/ \E id \in Ids : CompleteCommitment(id, NoDay)
    \/ \E id \in Ids : SkipCommitment(id)
    \/ ProcessResponse(LogsJogging, TRUE)
    \/ \E fs \in FakeDayStarts, m \in Multipliers : StartFakeTime(fs, m)
    \/ StopFakeTime
    \/ AdvanceTime(TickLen)

SpecFakeDay == Init /\ [][NextFakeDay]_vars

\* the step stores a completion row while fake time is active
StoresCompletion ==
    /\ clock.use_fake_time
    /\ Len(completions') = Len(completions) + 1

\* C18: while fake time is active, the date stored for a completion logged
\* without a date is the day of time_service.now(), not of the platform
\* clock.
C18_FakeDates ==
    [][StoresCompletion =>
          completions'[Len(completions')].completion_date = Day(Now)]_vars

\* the date stored is the day of the platform clock
PlatformDates ==
    [][StoresCompletion =>
          completions'[Len(completions')].completion_date = Day(real_now)]_vars

(***************************************************************************)
(* Concurrent completion requests (specification SpecRace).                *)
(* complete_commitment is a plain def, which FastAPI runs on a worker      *)
(* thread, and every request has a session of its own (get_db): the        *)
(* queries and the commit of a request are steps between which another     *)
(* request may run.  The sessions are made with autoflush=False, so the    *)
(* row that db.add queued and the new completion_count reach the database  *)
(* at the commit.  A completion logged by the pipeline takes the same      *)
(* steps: the lookup, db.add and the increment in                          *)
(* _log_commitment_completion, the commit at the end of process_response.  *)
(***************************************************************************)


\* db.query(Commitment)...first(): the request holds the row as it is now
LoadCommitment(r, via, id, date) ==
    /\ requests[r].pc = "idle"
    /\ Exists(commitments, id)
    /\ commitments[id].recurrence_pattern # "none"
    /\ requests' = [requests EXCEPT ![r] =
           [pc |-> "loaded", via |-> via, cid |-> id,
            date |-> IF date # NoDay THEN date ELSE Today,
            completion_count |-> commitments[id].completion_count]]
    /\ UNCHANGED << coreVars, promptVars, schedVars, pureVars >>

\* db.query(CommitmentCompletion)...first(): the request ends when it finds
\* a row
LookupCompletion(r) ==
    /\ requests[r].pc = "loaded"
    /\ requests' = [requests EXCEPT ![r].pc =
           IF RowsFor(completions, requests[r].cid, requests[r].date) # {}
           THEN "idle" ELSE "checked"]
    /\ UNCHANGED << coreVars, promptVars, schedVars, pureVars >>

\* commitment.completion_count += 1 with the count of the row the database
\* holds now
FreshCount(r) == commitments[requests[r].cid].completion_count + 1

\* commitment.completion_count += 1: the count of the row the request loaded
IncrementedCount(r) == requests[r].completion_count + 1

\* db.add(completion); commitment.completion_count += 1; db.commit()
CommitCompletion(r) ==
    /\ requests[r].pc = "checked"
    /\ Len(completions) < MaxCompletions
    /\ completions' = Append(completions,
                             CompletionRow(requests[r].cid, requests[r].date, FALSE))
    /\ commitments' = [commitments EXCEPT
           ![requests[r].cid].completion_count = IncrementedCount(r)]
    /\ requests' = [requests EXCEPT ![r].pc = "idle"]
    /\ UNCHANGED << timeVars, proactive_messages, conversations, daily_checkins,
                    sweepVars, last_call, llmVars, promptVars, schedVars,
                    pureVars >>

NextRace ==
    \/ /\ UNCHANGED requests
       /\ CreateCommitment(Jogging, "daily", NoDay)
    \/ \E r \in Requests, via \in {"endpoint", "pipeline"}, id \in Ids,
          date \in {NoDay, 1} : LoadCommitment(r, via, id, date)
    \/ \E r \in Requests : LookupCompletion(r)
    \/ \E r \in Requests : CommitCompletion(r)
    \/ /\ UNCHANGED requests
       /\ AdvanceTime(TickLen)

SpecRace == Init /\ [][NextRace]_vars

\* the completions of commitment c that are not skips
Completed(c) ==
    {i \in 1..Len(completions) :
        completions[i].commitment_id = c /\ ~completions[i].skipped}

\* a (commitment, date) pair has two rows
TwoRows(c, d) == Cardinality(RowsFor(completions, c, d)) >= 2

C20_StagesInOrder ==
    (last_call.op = "enhanced_chat" /\ last_call.healthy) =>
        /\ last_call.stages = << "classify", "retrieve", "llm", "actions", "persist" >>
        /\ last_call.response # FallbackReply
        /\ conversations # << >>
        /\ conversations[Len(conversations)].response = last_call.response

\* every request on a session of the caller ends in the fallback reply
AlwaysFallback ==
    (last_call.op = "enhanced_chat" /\ last_call.ok) =>
        /\ last_call.response = FallbackReply
        /\ last_call.stages \in {<< "fallback" >>, << "classify", "fallback" >>}

(***************************************************************************)
(* What process_message makes of the parse (specification SpecParse).      *)
(***************************************************************************)
\* process_message: structured_response = _parse_structured_response(...),
\* except Exception: _create_fallback_response, whose lists are empty
ResponseLists(result) ==
    IF result.raised THEN NoLists ELSE result.lists

\* C21: parsing degrades field by field: whatever field or item of the
\* object is malformed, the response keeps the well-formed items of every
\* list key.
C21_FieldLevel ==
    structured.called =>
        \A f \in ListFields :
            ResponseLists(structured.result)[f] =
                SelectSeq(ListData(structured.data[f]).items, IsItem)

\* a malformed item leaves the response without the well-formed ones
C21_Discarded ==
    /\ structured.called
    /\ structured.data.habit_actions = List(<< Item(1), Bad >>)
    /\ structured.data.commitments = List(<< Item(1) >>)
    /\ structured.data.mood_analysis = "object"
    /\ structured.data.response_metadata = "absent"
    /\ ResponseLists(structured.result) = NoLists

(***************************************************************************)
(* The target of a log_completion (specification SpecActions).             *)
(***************************************************************************)
\* the rows created for the identifier by the call that just committed
AutoCreated(identifier) ==
    /\ last_call'.seq # last_call.seq
    /\ last_call'.op = "process_response"
    /\ last_call'.committed
    /\ \E i \in 1..Len(last_call'.outcomes) :
          /\ last_call'.outcomes[i].was_auto_created
          /\ last_call'.outcomes[i].habit_identifier = identifier

\* the active recurring commitments stored before the call
ActiveItems ==
    {j \in 1..Len(commitments) :
        /\ commitments[j].recurrence_pattern # "none"
        /\ commitments[j].status = "active"}

NoneSimilar ==
    \A identifier \in {Jogging, WentJogging, JoggingPadded, Yoga} :
        AutoCreated(identifier) =>
            \A j \in ActiveItems :
                ~SimilarHabit(identifier, commitments[j].task_description)

\* C22: a log_completion auto-creates a commitment only when no active item
\* that existed before the call is similar to the identifier (similarity at
\* or above the threshold).
C22_NoCreateWhenSimilar == [][NoneSimilar]_vars

\* a commitment is created for an identifier that is not similar to the
\* active one
C22_CreatedWhenDifferent ==
    /\ Processed
    /\ last_call.committed
    /\ Len(commitments) = 2
    /\ commitments[1].task_description = Jogging
    /\ commitments[2].task_description = Yoga
    /\ \E i \in 1..Len(last_call.outcomes) :
          /\ last_call.outcomes[i].was_auto_created
          /\ last_call.outcomes[i].habit_identifier = Yoga

(***************************************************************************)
(* The spacing of the reminders by mode (specification Spec).              *)
(***************************************************************************)
\* the interval the reminders are to keep: 24 hours on real time, 30
\* minutes under fake time
RequiredInterval == IF clock.use_fake_time THEN 30 * 60 ELSE 24 * 3600

SpacedByMode ==
    last_sweep' # last_sweep =>
        \A c \in Stored :
            (c \in last_sweep'.due /\ commitments[c].last_reminded_at # NoTime) =>
                Now - commitments[c].last_reminded_at >= RequiredInterval

\* C23: a sweep sends a further reminder for a commitment only when the
\* service clock is at least the minimum interval past last_reminded_at: 24
\* hours when the service runs on real time, 30 minutes under fake time.
C23_SpacedByMode == [][SpacedByMode]_vars

\* the second reminder of a commitment sent on real time, less than a day
\* after the first
C23_SoonOnRealTime ==
    \E c \in Stored :
        /\ ~clock.use_fake_time
        /\ commitments[c].reminder_count = 2
        /\ last_sweep.at = Now
        /\ c \in last_sweep.due
        /\ Now < StartTime + 24 * 3600

(***************************************************************************)
(* The iterations of the poll loop (specification SpecLoop): the loop runs *)
(* with jobs that raise, under the real and under the accelerated clock,   *)
(* and is not stopped.                                                     *)
(***************************************************************************)
NextLoop ==
    \/ StartScheduler
    \/ \E s \in 0..2, raising \in SUBSET {1, 2} : LoopStep(s, raising)
    \/ /\ fts.task = "none"
       /\ StartFakeTime(DayLen, DefaultMultiplier)
    \/ /\ real_now < StartTime + MaxSeconds
       /\ fts.task \in {"job", "sleeping"}
       /\ AdvanceTime(1)

SpecLoop == Init /\ [][NextLoop]_vars

\* job j had run before the most recent iteration
RanBefore(j) == j \in 1..Len(job_log.before) /\ job_log.before[j] # NoTime

\* C24: in an iteration of the loop a job that has run before is in
\* jobs_to_run exactly when interval_minutes of fake time have passed since
\* its recorded last run, and is then stamped with the time of the
\* iteration (until start_scheduler replaces the jobs); the jobs started are jobs of jobs_to_run, each at most once;
\* when the iteration is over every job of jobs_to_run was started, whatever
\* jobs raised, and the loop goes on.
C24_Iteration ==
    /\ \A j \in 1..2 :
          RanBefore(j) =>
              /\ j \in job_log.due <=>
                     job_log.at - job_log.before[j] >= JobIntervals[j] * 60
              /\ j \in job_log.due => fts.last_run[j] \in {job_log.at, NoTime}
    /\ Range(job_log.started) \subseteq job_log.due
    /\ \A k, m \in 1..Len(job_log.started) :
          job_log.started[k] = job_log.started[m] => k = m
    /\ fts.task = "job" =>
          Range(job_log.started) \cup Range(fts.to_run) = job_log.due
    /\ fts.task = "sleeping" => Range(job_log.started) = job_log.due
    /\ job_log.raised # {} => fts.task \in {"job", "sleeping"} /\ fts.running

\* the hourly job ran again an hour after its last run, raised, and the
\* other job of the iteration ran after it
C24_Witness ==
    /\ RanBefore(1)
    /\ job_log.at - job_log.before[1] >= 60 * 60
    /\ job_log.due = {1, 2}
    /\ job_log.raised = {1}
    /\ job_log.started = << 1, 2 >>
    /\ fts.task = "sleeping"

\* an iteration in which the hourly job was not yet due and did not run
C24_NotYetDue ==
    /\ RanBefore(1)
    /\ job_log.at - job_log.before[1] = 50 * 60
    /\ job_log.due = {2}
    /\ job_log.started = << 2 >>

(***************************************************************************)
(* services/rag_system.py: _calculate_habit_streak (specification          *)
(* SpecStreak).  The rows of habit_logs of one habit are given by their    *)
(* completed_at.                                                           *)
(***************************************************************************)
MaxLogs == 3

\* sorted(set(dates), reverse=True)
SortedDescending(S) ==
    CHOOSE q \in [1..Cardinality(S) -> S] :
        \A i, j \in 1..Cardinality(S) : i < j => q[i] > q[j]

\* _calculate_habit_streak
CalculateHabitStreak(completed_at, current_date) ==
    LET completion_dates ==
            SortedDescending({Day(completed_at[k]) : k \in 1..Len(completed_at)})
        \* the streak after the first i dates of the loop; the loop breaks
        \* at the first date that is not the expected one
        streak[i \in 0..Len(completion_dates)] ==
            IF i = 0 THEN 0
            ELSE IF streak[i - 1] = i - 1
                    /\ completion_dates[i] = current_date - streak[i - 1]
                 THEN streak[i - 1] + 1
                 ELSE streak[i - 1]
    IN IF completed_at = << >> THEN 0
       ELSE streak[Len(completion_dates)]

\* the habit context is built: the streak of a habit is calculated
HabitStreak(completed_at) ==
    /\ streak_call' = [called |-> TRUE, completions |-> completed_at,
                       today |-> Day(Now),
                       result |-> CalculateHabitStreak(completed_at, Day(Now))]
    /\ UNCHANGED << coreVars, promptVars, schedVars, raceVars, extracted,
                    classified, structured >>

\* the instants of the logs: a morning of four days and an evening; a habit
\* has no log of a day after the day of the call
LogTimes ==
    {d * DayLen + 8 * 3600 : d \in 0..3} \cup {3 * DayLen + 20 * 3600}

HabitLogs == UNION {[1..n -> LogTimes] : n \in 0..MaxLogs}

StreakStarts == {3 * DayLen + 12 * 3600, 4 * DayLen + 12 * 3600}

NextStreak ==
    \/ \E completed_at \in HabitLogs :
          /\ \A k \in 1..Len(completed_at) : Day(completed_at[k]) <= Day(Now)
          /\ HabitStreak(completed_at)
    \/ \E fs \in StreakStarts : StartFakeTime(fs, 1)

SpecStreak == Init /\ [][NextStreak]_vars

\* the days with a completion
CompletionDays == {Day(streak_call.completions[k]) :
                      k \in 1..Len(streak_call.completions)}

\* the number of consecutive days with a completion, counted back from d
ConsecutiveFrom(d) ==
    CHOOSE n \in 0..(MaxLogs + 1) :
        /\ \A i \in 0..(n - 1) : (d - i) \in CompletionDays
        /\ (d - n) \notin CompletionDays

\* C25: the streak is the number of consecutive days with a completion,
\* counted back from today when today has one, from yesterday when today
\* has none and yesterday has one, and 0 when neither has; several
\* completions on a day count once.
C25_Streak ==
    streak_call.called =>
        streak_call.result =
            IF streak_call.today \in CompletionDays
            THEN ConsecutiveFrom(streak_call.today)
            ELSE IF (streak_call.today - 1) \in CompletionDays
            THEN ConsecutiveFrom(streak_call.today - 1)
            ELSE 0

\* the streak of a habit done today is counted back from today, a day done
\* twice counting once
StreakFromToday ==
    (streak_call.called /\ streak_call.today \in CompletionDays) =>
        streak_call.result = ConsecutiveFrom(streak_call.today)

\* done yesterday and the day before, not yet today: the streak is 0
C25_LostYesterday ==
    /\ streak_call.called
    /\ streak_call.today = 3
    /\ CompletionDays = {1, 2}
    /\ streak_call.result = 0

(***************************************************************************)
(* The delivery of the messages that the action processor schedules        *)
(* (specification SpecDelivery): the pipeline stores commitments with a    *)
(* reminder and scheduled actions, the two sweeps of the scheduler run     *)
(* again and again, and the clock moves on.                                *)
(***************************************************************************)
DeliveryResponses ==
    {[NoResponse EXCEPT !.commitments = << c >>] : c \in ExtractedCommitments}
    \cup {[NoResponse EXCEPT !.scheduled_actions = << [send_time |-> StartTime] >>]}

\* get_proactive_messages: the rows with sent_at set
GetProactiveMessages ==
    {k \in 1..Len(proactive_messages) : proactive_messages[k].sent_at # NoTime}

NextDelivery ==
    \/ \E r \in DeliveryResponses : ProcessResponse(r, TRUE)
    \/ CheckCommitmentReminders({})
    \/ SendScheduledPrompts({})
    \/ AdvanceTime(TickLen)

\* the scheduler keeps running its jobs and the clock keeps moving
SpecDelivery ==
    /\ Init
    /\ [][NextDelivery]_vars
    /\ WF_vars(CheckCommitmentReminders({}))
    /\ WF_vars(SendScheduledPrompts({}))
    /\ WF_vars(AdvanceTime(TickLen))

\* row k was created with a scheduled_for that the clock has passed
ScheduledAndDue(k) ==
    /\ k \in 1..Len(proactive_messages)
    /\ proactive_messages[k].scheduled_for # NoTime
    /\ Now > proactive_messages[k].scheduled_for

NeverSent ==
    \A k \in 1..Len(proactive_messages) :
        proactive_messages[k].scheduled_for # NoTime =>
            k \notin GetProactiveMessages

\* the clock is past the time of a scheduled reminder, a sweep has run at
\* that time, and the reminder is not in the listing
C26_Overdue ==
    /\ ScheduledAndDue(1)
    /\ proactive_messages[1].message_type = "commitment_reminder"
    /\ last_sweep.at = Now
    /\ prompt_sweep.at = Now
    /\ 1 \notin GetProactiveMessages

(***************************************************************************)
(* Actions that fail after a flush (specification SpecFailing).            *)
(***************************************************************************)
FailingActions ==
    {HabitAction("log_completion", Jogging, NoDay, "", ""),
     Raising(HabitAction("log_completion", Jogging, NoDay, "", "")),
     Raising(HabitAction("log_completion", Yoga, NoDay, "", "")),
     HabitAction("modify_existing", Jogging, NoDay, "", "")}

FailingResponses ==
    {r \in [commitments : SeqsUpTo(ExtractedCommitments
                                   \cup {Raising(c) : c \in ExtractedCommitments},
                                   MaxActions),
            habit_actions : SeqsUpTo(FailingActions, MaxActions),
            mood_analysis : {FALSE},
            scheduled_actions : {<< >>}] :
        ActionCount(r) <= MaxActions}

NextFailing ==
    \E r \in FailingResponses, commit_ok \in BOOLEAN : ProcessResponse(r, commit_ok)

SpecFailing == Init /\ [][NextFailing]_vars

\* the step is a process_response that committed and all of whose actions
\* failed
AllFailed ==
    /\ last_call'.seq # last_call.seq
    /\ last_call'.op = "process_response"
    /\ last_call'.committed
    /\ last_call'.request > 0
    /\ \A i \in 1..Len(last_call'.outcomes) : ~last_call'.outcomes[i].success

\* C27: an action whose outcome is success=False has no effect in the
\* database after the commit of process_response: a batch all of whose
\* actions failed leaves every table as it was.
C27_NoEffect == [][AllFailed => dbVars' = dbVars]_vars

\* an action that fails without raising after a flush leaves nothing
UnknownTypeNoEffect ==
    [][(AllFailed /\ \A i \in 1..Len(last_call'.outcomes) :
                        last_call'.outcomes[i].error = "unknown habit action type")
       => dbVars' = dbVars]_vars

\* a commitment is stored, without reminder messages, by a batch whose only
\* action failed
C27_StoredWithoutReminders ==
    /\ Processed
    /\ last_call.committed
    /\ Len(last_call.outcomes) = 1
    /\ ~last_call.outcomes[1].success
    /\ last_call.outcomes[1].type = "commitment_creation_failed"
    /\ Len(commitments) = 1
    /\ proactive_messages = << >>

(***************************************************************************)
(* The reminder count and the reminder rows (specification Spec).          *)
(***************************************************************************)
CountsRows ==
    last_sweep' # last_sweep =>
        \A c \in Stored :
            /\ commitments'[c].reminder_count - commitments[c].reminder_count
                   = Cardinality(NewRowsFor(c))
            /\ NewRowsFor(c) = {} =>
                   commitments'[c].last_reminded_at = commitments[c].last_reminded_at

\* C28: a sweep raises the reminder_count of a commitment by the number of
\* commitment_reminder rows it stored for it, so that the count since the
\* last reset is the number of rows; a send that failed and stored no row
\* leaves reminder_count and last_reminded_at as they were.
C28_CountsRows == [][CountsRows]_vars

\* a commitment counted as reminded twice with no reminder row stored
C28_CountedWithoutRows ==
    \E c \in Stored :
        /\ commitments[c].reminder_count = 2
        /\ sends[c] = 2
        /\ proactive_messages = << >>

\* a sweep whose sends all succeed counts what it stored
CountsRowsWhenSent ==
    [][(last_sweep' # last_sweep
        /\ \A c \in last_sweep'.due : NewRowsFor(c) # {}) => CountsRows]_vars

(***************************************************************************)
(* The poll loop under operations on the clock (specification              *)
(* SpecClockOps): the loop runs, the clock is started, stopped, moved and  *)
(* re-scaled by the debug endpoints while it runs.                         *)
(***************************************************************************)
\* a time-service operation made while the loop task is suspended
TimeServiceOp(new_clock) ==
    /\ fts.running
    /\ fts.task \in {"job", "sleeping"}
    /\ clock' = new_clock
    /\ job_log' = [job_log EXCEPT
                      !.op = [at |-> CalculateFakeTime(new_clock, real_now),
                              ran |-> {}, tick |-> NoTime]]
    /\ UNCHANGED << real_now, dbVars, sweepVars, last_call, llmVars, promptVars,
                    pureVars, raceVars, fts >>

JumpTargets == {DayLen, DayLen + 2 * 3600}

NextClockOps ==
    \/ /\ ~fts.running
       /\ StartScheduler
    \/ \E s \in 0..2 : LoopStep(s, {})
    \/ /\ fts.task = "none"
       /\ StartFakeTime(DayLen, DefaultMultiplier)
    \/ TimeServiceOp(StartedClock(DayLen, DefaultMultiplier))
    \/ TimeServiceOp(StoppedClock)
    \/ /\ clock.use_fake_time
       /\ \E target \in JumpTargets : TimeServiceOp(JumpedClock(target))
    \/ /\ clock.use_fake_time
       /\ TimeServiceOp(MultipliedClock(DefaultMultiplier))
    \/ /\ real_now < StartTime + MaxSeconds
       /\ fts.task \in {"job", "sleeping"}
       /\ AdvanceTime(1)

SpecClockOps == Init /\ [][NextClockOps]_vars

\* an iteration of the loop took place when interval_minutes of job j had
\* passed on the service clock since the operation
IntervalSinceOp(j) ==
    /\ fts.running
    /\ job_log.op.at # NoTime
    /\ job_log.op.tick # NoTime
    /\ job_log.op.tick - job_log.op.at >= JobIntervals[j] * 60

\* C29: after an operation on the clock made while the scheduler runs, each
\* job runs again no later than interval_minutes of service-clock time after
\* the operation: an iteration that takes place that long after the
\* operation finds the job run since, or runs it.
C29_RunsAgain ==
    \A j \in 1..2 : IntervalSinceOp(j) => j \in job_log.op.ran

\* a job misses its interval only when the operation moved the clock back
\* past the time the job was last stamped with
StarvedOnlyWhenMovedBack ==
    \A j \in 1..2 :
        (IntervalSinceOp(j) /\ j \notin job_log.op.ran)
            => fts.last_run[j] > job_log.op.at

\* the clock was moved back to the start; ten fake minutes later the job of
\* every five minutes has not run again
C29_Starved ==
    /\ IntervalSinceOp(2)
    /\ job_log.op.at = DayLen
    /\ job_log.op.tick = DayLen + 600
    /\ 2 \notin job_log.op.ran
    /\ fts.last_run[2] > job_log.op.tick

(***************************************************************************)
(* The enhanced chat on a session that is not the caller's (specification  *)
(* SpecChat).                                                              *)
(***************************************************************************)
\* the request whose session_id finds no chat session of the caller
SessionNotFound == EnhancedChat(1, FALSE, TRUE, GeneralChat, NoClient, TRUE)

\* no stage ran, no action was executed, no row was written
NothingDone ==
    /\ last_call'.stages = << >>
    /\ last_call'.outcomes = << >>
    /\ last_call'.request = 0
    /\ dbVars' = dbVars
    /\ llmVars' = llmVars

\* C30: an enhanced-chat request whose session_id does not identify a chat
\* session owned by the caller is rejected with 404 "Session not found": no
\* pipeline stage runs for it, no action is executed and no Conversation row
\* is written under that session_id.
C30_Rejected ==
    [][SessionNotFound => (last_call'.status = 404 /\ NothingDone)]_vars

\* the request does nothing, and no reply is returned for it
NotFoundDoesNothing ==
    [][SessionNotFound => (~last_call'.ok /\ NothingDone)]_vars

\* the request on a missing session has ended in a server error
C30_ServerError ==
    /\ last_call.op = "enhanced_chat"
    /\ ~last_call.ok
    /\ last_call.status = 500
    /\ last_call.stages = << >>

=============================================================================
